---- MODULE Spec2Model ----
(***************************************************************************)
(* A model of stan::io::reader<T> (src/stan/io/reader.hpp): a reader that  *)
(* borrows a sequence of scalars and a sequence of integers and hands them *)
(* out in order through two cursors, pos_ and int_pos_.                    *)
(*                                                                         *)
(* Every member function is an operator over a reader value `this` that    *)
(* yields the SET of outcomes the call can have: each outcome carries the  *)
(* returned value, the exception thrown (if any) and the two cursors after *)
(* the call.  A call with undefined behaviour (a read beyond the end of    *)
(* the borrowed sequence) has several outcomes: one per choice of the      *)
(* values found beyond the end, and one where the process dies.  A call    *)
(* that breaks a precondition of the linear-algebra library has the        *)
(* outcome of a build with the library's assertions and the outcome of a   *)
(* build without them.                                                     *)
(***************************************************************************)
EXTENDS Integers, Sequences, FiniteSets, TLC

VARIABLES data_r, data_i, pos, int_pos, op, args, pos0, int_pos0, ret, err, integers_read,
          log_prob, second, instance, threads

vars == <<data_r, data_i, pos, int_pos, op, args, pos0, int_pos0, ret, err, integers_read,
          log_prob, second, instance, threads>>

(***************************************************************************)
(* Bounds of the exploration.                                              *)
(***************************************************************************)
MaxLenR == 1
MaxLenI == 1
MaxDim == 3
MaxVec == 4
MaxNnz == 2
MaxOverrun == 1
SizeBits == 16

ScalarVals == {1, 2}
ScalarBounds == {1, 2}
IntVals == {3, 5, 7}
IntBounds == {2, 5}
JunkVals == {0, 99}
ScenarioA == <<3, 5>>
ScenarioB == <<1, 2, 3, 4, 5, 6>>

BoundedSeq(S, k) == UNION {[1..l -> S] : l \in 0..k}

(***************************************************************************)
(* The borrowed sequences a reader is constructed over: the six scalars    *)
(* 1..6 with one integer, every short scalar sequence with no integers     *)
(* (and the single scalars 0, -1 and -2, at and below the ends of the      *)
(* intervals of prob and corr),                                            *)
(* and every short integer sequence (and the integers 3, 5) with no        *)
(* scalars.                                                                *)
(***************************************************************************)
DataR == BoundedSeq(ScalarVals, MaxLenR) \cup {<<1, 2>>, <<2, 1>>} \cup {<<0>>, <<-1>>, <<-2>>}
DataI == BoundedSeq(IntVals, MaxLenI) \cup {ScenarioA}
Inputs == ({ScenarioB} \X {<<7>>}) \cup (DataR \X {<<>>}) \cup ({<<>>} \X DataI)

SparseDims == {0, MaxDim}
SparseShapes == {<<0, MaxDim>>, <<MaxDim, MaxDim>>}

\* Arguments of the constrained scalars and of their dense and sparse batches.
ScalarIntervals == {<<1, 1>>, <<1, 2>>}
OffsetMultipliers == {<<1, 2>>}
DenseLowerBounds == {2}
DenseUpperBounds == {2}
DenseIntervals == {<<1, 2>>}
DenseSizes == {0, 2}
DenseShapes == {<<2, 2>>, <<2, 3>>}

(***************************************************************************)
(* Exceptions.  The strings are the messages of the std::runtime_error     *)
(* objects the reader throws; UBCrash is the death of the process on an    *)
(* out-of-range access; NoMatchingFunction is the compiler's rejection of  *)
(* a call, after which there is no program to run.                         *)
(***************************************************************************)
NoError == "none"
NoMoreIntegers == "no more integers to read."
NoMoreScalars == "no more scalars to read"
BufferExhausted == {NoMoreIntegers, NoMoreScalars}
UBCrash == "undefined behaviour: out-of-range access"
Aborted == "eigen_assert: vector constructed with a negative size"
NoMatchingFunction == "no matching member function for call to 'scalar_offset_multiplier'"
Fatal == {UBCrash, Aborted, NoMatchingFunction}

\* The messages of the std::invalid_argument thrown for a size of 0.
InvalidShape ==
  {"io::unit_vector: unit vectors cannot be size 0.",
   "io::unit_vector_constrain: unit vectors cannot be size 0.",
   "io::simplex: simplexes cannot be size 0.",
   "io::simplex_constrain: simplexes cannot be size 0."}

\* The std::domain_error of a validation predicate, named after the function string
\* the accessor hands to the predicate.
ValidationError ==
  {"stan::io::scalar_pos", "stan::io::scalar_lb", "stan::io::scalar_ub", "stan::io::scalar_lub",
   "stan::io::prob", "stan::io::corr", "stan::io::unit_vector", "stan::io::simplex",
   "stan::io::ordered", "stan::io::positive_ordered", "stan::io::cholesky_factor_cov",
   "stan::io::cholesky_factor_corr", "stan::io::cov_matrix", "stan::math::corr_matrix"}

(***************************************************************************)
(* The log-probability accumulator a caller may pass by reference (T& lp). *)
(* Its value is kept symbolic: whatever it held before the call, plus the  *)
(* terms the call added, in the order they were added.  NoAccumulator is   *)
(* the absence of the argument.                                            *)
(***************************************************************************)
NoAccumulator == [given |-> FALSE, added |-> <<>>]
LogProb == [given |-> TRUE, added |-> <<>>]

\* An outcome also carries the two borrowed sequences as the call leaves them: the
\* reader holds them by reference (std::vector<T>&) and no member function writes
\* through the references.
Outcome(this, r, e, p, ip) ==
  [ret |-> r, err |-> e, pos_ |-> p, int_pos_ |-> ip, lp_ |-> NoAccumulator,
   data_r_ |-> this.data_r_, data_i_ |-> this.data_i_]

Returns(this, v, p, ip) == Outcome(this, <<v>>, NoError, p, ip)
Throws(this, e, p, ip) == Outcome(this, <<>>, e, p, ip)

(***************************************************************************)
(* size_t is an unsigned integer of SizeBits bits: arithmetic on it wraps  *)
(* around.  The index type of the linear-algebra library is the signed     *)
(* integer of the same width: a size_t above IndexMax converts to the      *)
(* negative index m - SizeMod.                                             *)
(***************************************************************************)
SizeMod == 2 ^ SizeBits
IndexMax == 2 ^ (SizeBits - 1) - 1
SizeT(x) == x % SizeMod

(***************************************************************************)
(* The reader object: two borrowed sequences and two cursors.              *)
(***************************************************************************)
reader(dr, di) == [data_r_ |-> dr, data_i_ |-> di, pos_ |-> 0, int_pos_ |-> 0]

Size(s) == Len(s)

(***************************************************************************)
(* Containers of the linear-algebra library.  A dense matrix is its shape  *)
(* and its coefficients indexed by (row, column), both from 0.  A Map over *)
(* a run of scalars reads the run in column-major storage order.           *)
(***************************************************************************)
matrix_t(n, m, f) == [rows |-> n, cols |-> m, coeff |-> f]

map_matrix_t_row_major(run, n, m) ==
  matrix_t(n, m, [ij \in (0..(n - 1)) \X (0..(m - 1)) |-> run[ij[1] * m + ij[2] + 1]])

map_matrix_t(run, n, m) ==
  matrix_t(n, m, [ij \in (0..(n - 1)) \X (0..(m - 1)) |-> run[ij[2] * n + ij[1] + 1]])

map_vector_t(run, m) == map_matrix_t(run, m, 1)

map_row_vector_t(run, m) == map_matrix_t(run, 1, m)

triplet_type(r, c, v) == <<r, c, v>>

(***************************************************************************)
(* What a read of m scalars starting at index p (from 0) can find: the     *)
(* scalars of data_r_ where the index is in range, anything beyond.        *)
(***************************************************************************)
Beyond(this, p, m) == IF p + m > Size(this.data_r_) THEN p + m - Size(this.data_r_) ELSE 0

ReadRun(this, p, m) ==
  { [k \in 1..m |-> IF p + k <= Size(this.data_r_)
                    THEN this.data_r_[p + k]
                    ELSE junk[p + k - Size(this.data_r_)]] :
      junk \in [1..Beyond(this, p, m) -> JunkVals] }

(***************************************************************************)
(* Private cursor primitive: pos_ += m, then a reference to data_r_ at the *)
(* index pos_ - m.  No size check.                                         *)
(***************************************************************************)
scalar_ptr_increment_post(this, m) == [pos_ |-> this.pos_ + m, ref |-> this.pos_ + m]

scalar_ptr_increment(this, m) ==
  [pos_ |-> SizeT(this.pos_ + m), ref |-> SizeT(SizeT(this.pos_ + m) - m)]

(***************************************************************************)
(* Public accessors.                                                       *)
(***************************************************************************)
\* The counts left to read are differences of size_t values.
available(this) == {Returns(this, SizeT(Size(this.data_r_) - this.pos_), this.pos_, this.int_pos_)}

available_i(this) ==
  {Returns(this, SizeT(Size(this.data_i_) - this.int_pos_), this.pos_, this.int_pos_)}

integer_no_advance(this) ==
  IF this.int_pos_ >= Size(this.data_i_)
  THEN {Throws(this, NoMoreIntegers, this.pos_, this.int_pos_)}
  ELSE {Returns(this, this.data_i_[this.int_pos_ + 1], this.pos_, this.int_pos_)}

integer_skips(this) ==
  IF this.int_pos_ >= Size(this.data_i_)
  THEN {Throws(this, NoMoreIntegers, this.pos_, this.int_pos_)}
  ELSE {Returns(this, this.data_i_[this.int_pos_ + 1], this.pos_, this.int_pos_ + 2)}

integer_moves_both(this) ==
  IF this.int_pos_ >= Size(this.data_i_)
  THEN {Throws(this, NoMoreIntegers, this.pos_, this.int_pos_)}
  ELSE {Returns(this, this.data_i_[this.int_pos_ + 1], this.pos_ + 1, this.int_pos_ + 1)}

integer(this) ==
  IF this.int_pos_ >= Size(this.data_i_)
  THEN {Throws(this, NoMoreIntegers, this.pos_, this.int_pos_)}
  ELSE {Returns(this, this.data_i_[this.int_pos_ + 1], this.pos_, this.int_pos_ + 1)}

scalar_throw_late(this) ==
  IF this.pos_ >= Size(this.data_r_)
  THEN {Throws(this, NoMoreScalars, this.pos_ + 1, this.int_pos_)}
  ELSE {Returns(this, this.data_r_[this.pos_ + 1], this.pos_ + 1, this.int_pos_)}

scalar(this) ==
  IF this.pos_ >= Size(this.data_r_)
  THEN {Throws(this, NoMoreScalars, this.pos_, this.int_pos_)}
  ELSE {Returns(this, this.data_r_[this.pos_ + 1], this.pos_ + 1, this.int_pos_)}

std_vector_erase(this, m) ==
  IF m = 0
  THEN {Returns(this, <<>>, this.pos_, this.int_pos_)}
  ELSE { [Returns(this, run, this.pos_ + m, this.int_pos_) EXCEPT
            !.data_r_ = [k \in 1..Len(this.data_r_) |->
                           IF this.pos_ < k /\ k <= this.pos_ + m THEN 0 ELSE this.data_r_[k]]] :
           run \in ReadRun(this, this.pos_, m) }

std_vector_from_begin(this, m) ==
  IF m = 0
  THEN {Returns(this, <<>>, this.pos_, this.int_pos_)}
  ELSE { Returns(this, run, this.pos_ + m, this.int_pos_) : run \in ReadRun(this, 0, m) }

std_vector(this, m) ==
  IF m = 0
  THEN {Returns(this, <<>>, this.pos_, this.int_pos_)}
  ELSE { Returns(this, run, this.pos_ + m, this.int_pos_) : run \in ReadRun(this, this.pos_, m) }
       \cup (IF Beyond(this, this.pos_, m) > 0
             THEN {Throws(this, UBCrash, this.pos_, this.int_pos_)}
             ELSE {})

(***************************************************************************)
(* vector(m) constructs a vector of m coefficients before it looks at m.   *)
(* For m above IndexMax the size converts to a negative index: a build     *)
(* with the library's assertions aborts in the constructor; a build        *)
(* without them gets a vector of negative size, maps no scalar onto it and *)
(* adds m to pos_ modulo SizeMod.                                          *)
(***************************************************************************)
vector(this, m) ==
  IF m > IndexMax
  THEN {Throws(this, Aborted, this.pos_, this.int_pos_),
        Returns(this, map_vector_t(<<>>, m - SizeMod), scalar_ptr_increment(this, m).pos_,
                this.int_pos_)}
  ELSE IF m = 0
  THEN {Returns(this, map_vector_t(<<>>, 0), this.pos_, this.int_pos_)}
  ELSE LET inc == scalar_ptr_increment(this, m)
       IN  { Returns(this, map_vector_t(run, m), inc.pos_, this.int_pos_) :
               run \in ReadRun(this, inc.ref, m) }
           \cup (IF Beyond(this, inc.ref, m) > 0
                 THEN {Throws(this, UBCrash, inc.pos_, this.int_pos_)}
                 ELSE {})

row_vector(this, m) ==
  IF m = 0
  THEN {Returns(this, map_row_vector_t(<<>>, 0), this.pos_, this.int_pos_)}
  ELSE LET inc == scalar_ptr_increment(this, m)
       IN  { Returns(this, map_row_vector_t(run, m), inc.pos_, this.int_pos_) :
               run \in ReadRun(this, inc.ref, m) }
           \cup (IF Beyond(this, inc.ref, m) > 0
                 THEN {Throws(this, UBCrash, inc.pos_, this.int_pos_)}
                 ELSE {})

matrix_swapped(this, n, m) ==
  IF m = 0 \/ n = 0
  THEN {Returns(this, map_matrix_t(<<>>, n, m), this.pos_, this.int_pos_)}
  ELSE LET inc == scalar_ptr_increment(this, n * m)
       IN  { Returns(this, map_matrix_t(run, m, n), inc.pos_, this.int_pos_) :
               run \in ReadRun(this, inc.ref, n * m) }

matrix(this, n, m) ==
  IF m = 0 \/ n = 0
  THEN {Returns(this, map_matrix_t(<<>>, n, m), this.pos_, this.int_pos_)}
  ELSE LET inc == scalar_ptr_increment(this, n * m)
       IN  { Returns(this, map_matrix_t(run, n, m), inc.pos_, this.int_pos_) :
               run \in ReadRun(this, inc.ref, n * m) }
           \cup (IF Beyond(this, inc.ref, n * m) > 0
                 THEN {Throws(this, UBCrash, inc.pos_, this.int_pos_)}
                 ELSE {})

(***************************************************************************)
(* Bounded integers.  The integer is read first; the bounds are looked at  *)
(* afterwards.  The constrain forms forward to the plain form; the form    *)
(* with an accumulator ignores it.                                         *)
(***************************************************************************)
BelowLowerBound == "required value greater than or equal to lb"
AboveUpperBound == "required value less than or equal to ub"
BoundsInconsistent == "lower bound must be less than or equal to ub"

integer_lb_clamp(this, lb) ==
  { IF o.err # NoError THEN o
    ELSE IF ~(o.ret[1] >= lb) THEN Returns(this, lb, o.pos_, o.int_pos_)
    ELSE o : o \in integer(this) }

integer_lb(this, lb) ==
  { IF o.err # NoError THEN o
    ELSE IF ~(o.ret[1] >= lb) THEN Throws(this, BelowLowerBound, o.pos_, o.int_pos_)
    ELSE o : o \in integer(this) }

integer_lb_constrain(this, lb) == integer_lb(this, lb)

integer_lb_constrain_lp(this, lb, lp) == { [o EXCEPT !.lp_ = lp] : o \in integer_lb(this, lb) }

integer_ub_strict(this, ub) ==
  { IF o.err # NoError THEN o
    ELSE IF ~(o.ret[1] < ub) THEN Throws(this, AboveUpperBound, o.pos_, o.int_pos_)
    ELSE o : o \in integer(this) }

integer_ub(this, ub) ==
  { IF o.err # NoError THEN o
    ELSE IF ~(o.ret[1] <= ub) THEN Throws(this, AboveUpperBound, o.pos_, o.int_pos_)
    ELSE o : o \in integer(this) }

integer_ub_constrain(this, ub) == integer_ub(this, ub)

integer_ub_constrain_lp(this, ub, lp) == { [o EXCEPT !.lp_ = lp] : o \in integer_ub(this, ub) }

integer_lub_bounds_first(this, lb, ub) ==
  IF lb > ub
  THEN {Throws(this, BoundsInconsistent, this.pos_, this.int_pos_)}
  ELSE { IF o.err # NoError THEN o
         ELSE IF ~(o.ret[1] >= lb) THEN Throws(this, BelowLowerBound, o.pos_, o.int_pos_)
         ELSE IF ~(o.ret[1] <= ub) THEN Throws(this, AboveUpperBound, o.pos_, o.int_pos_)
         ELSE o : o \in integer(this) }

integer_lub_value_first(this, lb, ub) ==
  { IF o.err # NoError THEN o
    ELSE IF ~(o.ret[1] >= lb) THEN Throws(this, BelowLowerBound, o.pos_, o.int_pos_)
    ELSE IF ~(o.ret[1] <= ub) THEN Throws(this, AboveUpperBound, o.pos_, o.int_pos_)
    ELSE IF lb > ub THEN Throws(this, BoundsInconsistent, o.pos_, o.int_pos_)
    ELSE o : o \in integer(this) }

integer_lub(this, lb, ub) ==
  { IF o.err # NoError THEN o
    ELSE IF lb > ub THEN Throws(this, BoundsInconsistent, o.pos_, o.int_pos_)
    ELSE IF ~(o.ret[1] >= lb) THEN Throws(this, BelowLowerBound, o.pos_, o.int_pos_)
    ELSE IF ~(o.ret[1] <= ub) THEN Throws(this, AboveUpperBound, o.pos_, o.int_pos_)
    ELSE o : o \in integer(this) }

integer_lub_constrain(this, lb, ub) == integer_lub(this, lb, ub)

integer_lub_constrain_lp(this, lb, ub, lp) ==
  { [o EXCEPT !.lp_ = lp] : o \in integer_lub(this, lb, ub) }

(***************************************************************************)
(* sparse_matrix: the triplet list is constructed with vec_r.size()        *)
(* default triplets (0, 0, 0); the loop then appends one triplet per       *)
(* listed nonzero, each taking its value from scalar_ptr_increment(1).     *)
(* The return value is the sparse matrix set from that list.               *)
(***************************************************************************)
default_triplets(k) == [i \in 1..k |-> triplet_type(0, 0, 0)]

setFromTriplets(n, m, triplet_list) == [rows |-> n, cols |-> m, triplets |-> triplet_list]

RECURSIVE sparse_matrix_loop(_, _, _, _, _)
sparse_matrix_loop(this, vec_r, vec_c, i, triplet_list) ==
  IF ~(i < Size(vec_r))
  THEN {[pos_ |-> this.pos_, err |-> NoError, triplet_list |-> triplet_list]}
  ELSE LET inc == scalar_ptr_increment(this, 1)
           next == [this EXCEPT !.pos_ = inc.pos_]
       IN  UNION { sparse_matrix_loop(next, vec_r, vec_c, i + 1,
                     Append(triplet_list, triplet_type(vec_r[i + 1], vec_c[i + 1], run[1]))) :
                     run \in ReadRun(this, inc.ref, 1) }
           \cup (IF Beyond(this, inc.ref, 1) > 0
                 THEN {[pos_ |-> inc.pos_, err |-> UBCrash, triplet_list |-> triplet_list]}
                 ELSE {})

sparse_matrix_swapped(this, vec_r, vec_c, n, m) ==
  IF m = 0 \/ n = 0
  THEN {Returns(this, setFromTriplets(n, m, <<>>), this.pos_, this.int_pos_)}
  ELSE { IF l.err = NoError
         THEN Returns(this, setFromTriplets(n, m, l.triplet_list), l.pos_, this.int_pos_)
         ELSE Throws(this, l.err, l.pos_, this.int_pos_) :
           l \in sparse_matrix_loop(this, vec_c, vec_r, 0, default_triplets(Size(vec_r))) }

sparse_matrix(this, vec_r, vec_c, n, m) ==
  IF m = 0 \/ n = 0
  THEN {Returns(this, setFromTriplets(n, m, <<>>), this.pos_, this.int_pos_)}
  ELSE { IF l.err = NoError
         THEN Returns(this, setFromTriplets(n, m, l.triplet_list), l.pos_, this.int_pos_)
         ELSE Throws(this, l.err, l.pos_, this.int_pos_) :
           l \in sparse_matrix_loop(this, vec_r, vec_c, 0, default_triplets(Size(vec_r))) }

(***************************************************************************)
(* The constrain forms of the unconstrained accessors.  Each returns what  *)
(* the plain accessor returns; the form with an accumulator leaves its     *)
(* parameter unnamed and uses it nowhere.                                  *)
(***************************************************************************)
integer_constrain(this) == integer(this)

integer_constrain_lp(this, lp) == { [o EXCEPT !.lp_ = lp] : o \in integer(this) }

scalar_constrain(this) == scalar(this)

scalar_constrain_lp(this, lp) == { [o EXCEPT !.lp_ = lp] : o \in scalar(this) }

vector_constrain(this, m) == vector(this, m)

vector_constrain_lp(this, m, lp) == { [o EXCEPT !.lp_ = lp] : o \in vector(this, m) }

row_vector_constrain(this, m) == row_vector(this, m)

row_vector_constrain_lp(this, m, lp) == { [o EXCEPT !.lp_ = lp] : o \in row_vector(this, m) }

matrix_constrain_transposed(this, n, m) == matrix_swapped(this, n, m)

matrix_constrain(this, n, m) == matrix(this, n, m)

matrix_constrain_lp(this, n, m, lp) == { [o EXCEPT !.lp_ = lp] : o \in matrix(this, n, m) }

sparse_matrix_constrain(this, vec_r, vec_c, n, m) == sparse_matrix(this, vec_r, vec_c, n, m)

sparse_matrix_constrain_lp(this, vec_r, vec_c, n, m, lp) ==
  { [o EXCEPT !.lp_ = lp] : o \in sparse_matrix(this, vec_r, vec_c, n, m) }

(***************************************************************************)
(* Bounded scalars, plain form: the scalar is read with scalar() and then  *)
(* handed to a predicate of the validation library, which throws           *)
(* std::domain_error when the scalar is outside the bound.  The error is   *)
(* named after the function string the reader passes to the predicate.     *)
(***************************************************************************)
check_greater_or_equal(function, x, lb) == IF x >= lb THEN NoError ELSE function

check_less_or_equal(function, x, ub) == IF x <= ub THEN NoError ELSE function

\* The same with the cursors put back where the call found them on a failure.
Checked_rolled_back(this, o, verdict) ==
  IF verdict = NoError THEN o ELSE Throws(this, verdict, this.pos_, this.int_pos_)

\* The outcome of a successful read o whose value got the verdict of a predicate.
Checked(this, o, verdict) ==
  IF verdict = NoError THEN o ELSE Throws(this, verdict, o.pos_, o.int_pos_)

scalar_lb(this, lb) ==
  { IF o.err # NoError THEN o
    ELSE Checked(this, o, check_greater_or_equal("stan::io::scalar_lb", o.ret[1], lb)) :
    o \in scalar(this) }

scalar_ub(this, ub) ==
  { IF o.err # NoError THEN o
    ELSE Checked(this, o, check_less_or_equal("stan::io::scalar_ub", o.ret[1], ub)) :
    o \in scalar(this) }

(***************************************************************************)
(* Plain forms of the vector and matrix families: the value is read with   *)
(* vector(k) or matrix(n, m) and handed to a predicate of the validation   *)
(* library, which throws std::domain_error, named here after the function  *)
(* string it is given, when the value is not what the accessor's           *)
(* documentation calls valid: a unit vector has squared norm 1; a simplex  *)
(* has non-negative coefficients summing to 1; an ordered vector is        *)
(* strictly increasing, a positive ordered one positive too; a Cholesky    *)
(* factor is lower triangular with a positive diagonal and at least as     *)
(* many rows as columns, and the Cholesky factor of a correlation matrix   *)
(* is square with rows of norm 1 besides; a covariance matrix is square,   *)
(* symmetric and positive definite, and a correlation matrix has a unit    *)
(* diagonal besides.                                                       *)
(***************************************************************************)
RECURSIVE Sum(_)
Sum(seq) == IF seq = <<>> THEN 0 ELSE seq[1] + Sum(Tail(seq))

Coeffs(vec) ==
  [i \in 1..(vec.rows * vec.cols) |-> vec.coeff[<<(i - 1) % vec.rows, (i - 1) \div vec.rows>>]]

\* What is left of the leading k x k block of f (indexed from 0) when row 0 and
\* column j are removed.
Minor(f, k, j) ==
  [ab \in (0..(k - 2)) \X (0..(k - 2)) |->
     f[<<ab[1] + 1, IF ab[2] < j THEN ab[2] ELSE ab[2] + 1>>]]

\* The determinant of the leading k x k block of f, expanded along row 0.
RECURSIVE Det(_, _)
Det(f, k) ==
  IF k = 0 THEN 1
  ELSE Sum([j \in 1..k |->
              (IF j % 2 = 1 THEN 1 ELSE -1) * f[<<0, j - 1>>] * Det(Minor(f, k, j - 1), k - 1)])

IsLowerTriangular(y) ==
  \A i \in 0..(y.rows - 1), j \in 0..(y.cols - 1) : j > i => y.coeff[<<i, j>>] = 0

IsSymmetric(y) ==
  /\ y.rows = y.cols
  /\ \A i \in 0..(y.rows - 1), j \in 0..(y.cols - 1) : y.coeff[<<i, j>>] = y.coeff[<<j, i>>]

IsPositiveDefinite(y) ==
  /\ IsSymmetric(y)
  /\ \A k \in 1..y.rows : Det(y.coeff, k) > 0

check_unit_vector(function, theta) ==
  IF Sum([i \in 1..theta.rows |-> theta.coeff[<<i - 1, 0>>] * theta.coeff[<<i - 1, 0>>]]) = 1
  THEN NoError ELSE function

check_simplex(function, theta) ==
  IF /\ Sum(Coeffs(theta)) = 1
     /\ \A i \in 0..(theta.rows - 1) : theta.coeff[<<i, 0>>] >= 0
  THEN NoError ELSE function

check_ordered(function, x) ==
  IF \A i \in 1..(x.rows - 1) : x.coeff[<<i, 0>>] > x.coeff[<<i - 1, 0>>]
  THEN NoError ELSE function

check_positive_ordered(function, x) ==
  IF /\ \A i \in 0..(x.rows - 1) : x.coeff[<<i, 0>>] > 0
     /\ \A i \in 1..(x.rows - 1) : x.coeff[<<i, 0>>] > x.coeff[<<i - 1, 0>>]
  THEN NoError ELSE function

check_cholesky_factor(function, y) ==
  IF /\ y.rows >= y.cols
     /\ IsLowerTriangular(y)
     /\ \A i \in 0..(y.cols - 1) : y.coeff[<<i, i>>] > 0
  THEN NoError ELSE function

check_cholesky_factor_corr(function, y) ==
  IF /\ y.rows = y.cols
     /\ IsLowerTriangular(y)
     /\ \A i \in 0..(y.cols - 1) : y.coeff[<<i, i>>] > 0
     /\ \A i \in 0..(y.rows - 1) :
          Sum([j \in 1..y.cols |-> y.coeff[<<i, j - 1>>] * y.coeff[<<i, j - 1>>]]) = 1
  THEN NoError ELSE function

check_cov_matrix(function, y) == IF IsPositiveDefinite(y) THEN NoError ELSE function

check_corr_matrix(function, y) ==
  IF /\ IsPositiveDefinite(y)
     /\ \A i \in 0..(y.rows - 1) : y.coeff[<<i, i>>] = 1
  THEN NoError ELSE function

unit_vector(this, k) ==
  IF k = 0
  THEN {Throws(this, "io::unit_vector: unit vectors cannot be size 0.", this.pos_, this.int_pos_)}
  ELSE { IF o.err # NoError THEN o
         ELSE Checked(this, o, check_unit_vector("stan::io::unit_vector", o.ret[1])) :
         o \in vector(this, k) }

simplex(this, k) ==
  IF k = 0
  THEN {Throws(this, "io::simplex: simplexes cannot be size 0.", this.pos_, this.int_pos_)}
  ELSE { IF o.err # NoError THEN o
         ELSE Checked(this, o, check_simplex("stan::io::simplex", o.ret[1])) :
         o \in vector(this, k) }

ordered(this, k) ==
  { IF o.err # NoError THEN o
    ELSE Checked(this, o, check_ordered("stan::io::ordered", o.ret[1])) :
    o \in vector(this, k) }

positive_ordered(this, k) ==
  { IF o.err # NoError THEN o
    ELSE Checked(this, o, check_positive_ordered("stan::io::positive_ordered", o.ret[1])) :
    o \in vector(this, k) }

cholesky_factor_cov(this, n, m) ==
  { IF o.err # NoError THEN o
    ELSE Checked(this, o, check_cholesky_factor("stan::io::cholesky_factor_cov", o.ret[1])) :
    o \in matrix(this, n, m) }

cholesky_factor_corr(this, K) ==
  { IF o.err # NoError THEN o
    ELSE Checked(this, o,
                 check_cholesky_factor_corr("stan::io::cholesky_factor_corr", o.ret[1])) :
    o \in matrix(this, K, K) }

cov_matrix_unchecked(this, k) == matrix(this, k, k)

cov_matrix(this, k) ==
  { IF o.err # NoError THEN o
    ELSE Checked(this, o, check_cov_matrix("stan::io::cov_matrix", o.ret[1])) :
    o \in matrix(this, k, k) }

corr_matrix(this, k) ==
  { IF o.err # NoError THEN o
    ELSE Checked(this, o, check_corr_matrix("stan::math::corr_matrix", o.ret[1])) :
    o \in matrix(this, k, k) }

(***************************************************************************)
(* Constrain forms of the vector and matrix families.  The transforms are  *)
(* functions of the transform library (stan::math::<name>), kept symbolic: *)
(* the value returned is the transform's name applied to the vector read   *)
(* and the dimensions passed; the form with an accumulator adds the        *)
(* transform's log Jacobian term to it.  A call whose read threw returns   *)
(* nothing and adds nothing.                                               *)
(***************************************************************************)
Transform(name, x, dims) == [transform |-> name, x |-> x, dims |-> dims]

LogJacobian(name, x, dims) == [log_jacobian |-> name, x |-> x, dims |-> dims]

Constrain(this, outcomes, name, dims) ==
  { IF o.err # NoError THEN o
    ELSE Returns(this, Transform(name, o.ret[1], dims), o.pos_, o.int_pos_) : o \in outcomes }

ConstrainLp(this, outcomes, name, dims, lp) ==
  { IF o.err # NoError THEN [o EXCEPT !.lp_ = lp]
    ELSE [Returns(this, Transform(name, o.ret[1], dims), o.pos_, o.int_pos_)
            EXCEPT !.lp_ = [lp EXCEPT !.added = Append(@, LogJacobian(name, o.ret[1], dims))]] :
    o \in outcomes }

unit_vector_constrain_shorter(this, k) ==
  IF k = 0
  THEN {Throws(this, "io::unit_vector_constrain: unit vectors cannot be size 0.",
               this.pos_, this.int_pos_)}
  ELSE Constrain(this, vector(this, SizeT(k - 1)), "unit_vector_constrain", <<>>)

unit_vector_constrain(this, k) ==
  IF k = 0
  THEN {Throws(this, "io::unit_vector_constrain: unit vectors cannot be size 0.",
               this.pos_, this.int_pos_)}
  ELSE Constrain(this, vector(this, k), "unit_vector_constrain", <<>>)

unit_vector_constrain_lp(this, k, lp) ==
  IF k = 0
  THEN {[Throws(this, "io::unit_vector_constrain: unit vectors cannot be size 0.",
                this.pos_, this.int_pos_) EXCEPT !.lp_ = lp]}
  ELSE ConstrainLp(this, vector(this, k), "unit_vector_constrain", <<>>, lp)

simplex_constrain_full(this, k) ==
  IF k = 0
  THEN {Throws(this, "io::simplex_constrain: simplexes cannot be size 0.",
               this.pos_, this.int_pos_)}
  ELSE Constrain(this, vector(this, k), "simplex_constrain", <<>>)

simplex_constrain(this, k) ==
  IF k = 0
  THEN {Throws(this, "io::simplex_constrain: simplexes cannot be size 0.",
               this.pos_, this.int_pos_)}
  ELSE Constrain(this, vector(this, SizeT(k - 1)), "simplex_constrain", <<>>)

simplex_constrain_lp_no_check(this, k, lp) ==
  ConstrainLp(this, vector(this, SizeT(k - 1)), "simplex_constrain", <<>>, lp)

simplex_constrain_lp(this, k, lp) ==
  IF k = 0
  THEN {[Throws(this, "io::simplex_constrain: simplexes cannot be size 0.",
                this.pos_, this.int_pos_) EXCEPT !.lp_ = lp]}
  ELSE ConstrainLp(this, vector(this, SizeT(k - 1)), "simplex_constrain", <<>>, lp)

ordered_constrain_by_value(this, k) ==
  Constrain(this,
            vector(this, IF k > 0 /\ this.pos_ < Size(this.data_r_)
                            /\ this.data_r_[this.pos_ + 1] = 1
                         THEN SizeT(k - 1) ELSE k),
            "ordered_constrain", <<>>)

ordered_constrain(this, k) == Constrain(this, vector(this, k), "ordered_constrain", <<>>)

ordered_constrain_lp(this, k, lp) ==
  ConstrainLp(this, vector(this, k), "ordered_constrain", <<>>, lp)

positive_ordered_constrain(this, k) ==
  Constrain(this, vector(this, k), "positive_ordered_constrain", <<>>)

positive_ordered_constrain_lp(this, k, lp) ==
  ConstrainLp(this, vector(this, k), "positive_ordered_constrain", <<>>, lp)

\* (m * (m + 1)) / 2 + (n - m) * m in size_t arithmetic.
cholesky_factor_cov_size(n, m) ==
  SizeT(SizeT(m * SizeT(m + 1)) \div 2 + SizeT(SizeT(n - m) * m))

cholesky_factor_cov_constrain(this, n, m) ==
  Constrain(this, vector(this, cholesky_factor_cov_size(n, m)),
            "cholesky_factor_constrain", <<n, m>>)

cholesky_factor_cov_constrain_lp(this, n, m, lp) ==
  ConstrainLp(this, vector(this, cholesky_factor_cov_size(n, m)),
              "cholesky_factor_constrain", <<n, m>>, lp)

\* (K * (K - 1)) / 2 in size_t arithmetic.
cholesky_factor_corr_size(K) == SizeT(K * SizeT(K - 1)) \div 2

cholesky_factor_corr_constrain(this, K) ==
  Constrain(this, vector(this, cholesky_factor_corr_size(K)), "cholesky_corr_constrain", <<K>>)

cholesky_factor_corr_constrain_lp(this, K, lp) ==
  ConstrainLp(this, vector(this, cholesky_factor_corr_size(K)), "cholesky_corr_constrain",
              <<K>>, lp)

\* k + (k * (k - 1)) / 2 in size_t arithmetic.
cov_matrix_size(k) == SizeT(k + SizeT(k * SizeT(k - 1)) \div 2)

cov_matrix_constrain_square(this, k) ==
  Constrain(this, vector(this, SizeT(k * k)), "cov_matrix_constrain", <<k>>)

cov_matrix_constrain(this, k) ==
  Constrain(this, vector(this, cov_matrix_size(k)), "cov_matrix_constrain", <<k>>)

cov_matrix_constrain_lp(this, k, lp) ==
  ConstrainLp(this, vector(this, cov_matrix_size(k)), "cov_matrix_constrain", <<k>>, lp)

\* (k * (k - 1)) / 2 in size_t arithmetic.
corr_matrix_size(k) == SizeT(k * SizeT(k - 1)) \div 2

corr_matrix_constrain(this, k) ==
  Constrain(this, vector(this, corr_matrix_size(k)), "corr_matrix_constrain", <<k>>)

corr_matrix_constrain_lp(this, k, lp) ==
  ConstrainLp(this, vector(this, corr_matrix_size(k)), "corr_matrix_constrain", <<k>>, lp)

(***************************************************************************)
(* Constrained scalars.  The plain form reads with scalar() and hands the  *)
(* value to a predicate (scalar_offset_multiplier hands it to none); the   *)
(* constrain form hands the scalar read to the transform; the form with an *)
(* accumulator hands the transform the accumulator as well.                *)
(***************************************************************************)
check_positive(function, x) == IF x > 0 THEN NoError ELSE function

check_bounded_open(function, x, low, high) == IF low < x /\ x < high THEN NoError ELSE function

check_bounded(function, x, low, high) == IF low <= x /\ x <= high THEN NoError ELSE function

scalar_pos(this) ==
  { IF o.err # NoError THEN o
    ELSE Checked(this, o, check_positive("stan::io::scalar_pos", o.ret[1])) :
    o \in scalar(this) }

scalar_pos_constrain(this) == Constrain(this, scalar(this), "positive_constrain", <<>>)

scalar_pos_constrain_lp(this, lp) ==
  ConstrainLp(this, scalar(this), "positive_constrain", <<>>, lp)

scalar_lb_constrain(this, lb) == Constrain(this, scalar(this), "lb_constrain", <<lb>>)

scalar_lb_constrain_lp(this, lb, lp) ==
  ConstrainLp(this, scalar(this), "lb_constrain", <<lb>>, lp)

scalar_ub_constrain(this, ub) == Constrain(this, scalar(this), "ub_constrain", <<ub>>)

scalar_ub_constrain_lp(this, ub, lp) ==
  ConstrainLp(this, scalar(this), "ub_constrain", <<ub>>, lp)

scalar_lub(this, lb, ub) ==
  { IF o.err # NoError THEN o
    ELSE Checked(this, o, check_bounded("stan::io::scalar_lub", o.ret[1], lb, ub)) :
    o \in scalar(this) }

scalar_lub_constrain(this, lb, ub) ==
  Constrain(this, scalar(this), "lub_constrain", <<lb, ub>>)

scalar_lub_constrain_lp(this, lb, ub, lp) ==
  ConstrainLp(this, scalar(this), "lub_constrain", <<lb, ub>>, lp)

scalar_offset_multiplier(this, offset, multiplier) == scalar(this)

\* The offset-multiplier transform is f(x) = mu + sigma * x, mu the offset and sigma
\* the multiplier; the form with an accumulator adds its log Jacobian.
offset_multiplier_constrain(x, offset, multiplier) == offset + multiplier * x

scalar_offset_multiplier_constrain(this, offset, multiplier) ==
  { IF o.err # NoError THEN o
    ELSE Returns(this, offset_multiplier_constrain(o.ret[1], offset, multiplier), o.pos_,
                 o.int_pos_) :
    o \in scalar(this) }

scalar_offset_multiplier_constrain_lp(this, offset, multiplier, lp) ==
  { IF o.err # NoError THEN [o EXCEPT !.lp_ = lp]
    ELSE [Returns(this, offset_multiplier_constrain(o.ret[1], offset, multiplier), o.pos_,
                  o.int_pos_)
            EXCEPT !.lp_ = [lp EXCEPT !.added =
                              Append(@, LogJacobian("offset_multiplier_constrain", o.ret[1],
                                                    <<offset, multiplier>>))]] :
    o \in scalar(this) }

prob(this) ==
  { IF o.err # NoError THEN o
    ELSE Checked(this, o, check_bounded("stan::io::prob", o.ret[1], 0, 1)) :
    o \in scalar(this) }

prob_constrain(this) == Constrain(this, scalar(this), "prob_constrain", <<>>)

prob_constrain_lp(this, lp) == ConstrainLp(this, scalar(this), "prob_constrain", <<>>, lp)

corr(this) ==
  { IF o.err # NoError THEN o
    ELSE Checked(this, o, check_bounded("stan::io::corr", o.ret[1], -1, 1)) :
    o \in scalar(this) }

corr_constrain(this) == Constrain(this, scalar(this), "corr_constrain", <<>>)

corr_constrain_lp(this, lp) == ConstrainLp(this, scalar(this), "corr_constrain", <<>>, lp)

(***************************************************************************)
(* Dense batches of constrained scalars.  Every accessor constructs its    *)
(* result (vector_t v(m), row_vector_t v(m), matrix_t v(n, m)) and fills   *)
(* it in a loop, one call of a scalar-level accessor per coefficient: i    *)
(* from 0 to m - 1 for a vector or row vector; j from 0 to m - 1 and,      *)
(* inside, i from 0 to n - 1 for a matrix.  The loop ends at the first     *)
(* call that throws.  An accumulator is handed on from call to call.       *)
(***************************************************************************)
ScalarArgs(lb, ub, offset, multiplier) ==
  [lb |-> lb, ub |-> ub, offset |-> offset, multiplier |-> multiplier]

\* The call this->f(...) of the loop body, f being the scalar-level accessor's name.
scalar_level(this, f, a, lp) ==
  CASE f = "scalar_lb" -> scalar_lb(this, a.lb)
    [] f = "scalar_lb_constrain" ->
         IF lp.given THEN scalar_lb_constrain_lp(this, a.lb, lp)
         ELSE scalar_lb_constrain(this, a.lb)
    [] f = "scalar_ub" -> scalar_ub(this, a.ub)
    [] f = "scalar_ub_constrain" ->
         IF lp.given THEN scalar_ub_constrain_lp(this, a.ub, lp)
         ELSE scalar_ub_constrain(this, a.ub)
    [] f = "scalar_lub" -> scalar_lub(this, a.lb, a.ub)
    [] f = "scalar_lub_constrain" ->
         IF lp.given THEN scalar_lub_constrain_lp(this, a.lb, a.ub, lp)
         ELSE scalar_lub_constrain(this, a.lb, a.ub)
    [] f = "scalar_offset_multiplier" -> scalar_offset_multiplier(this, a.offset, a.multiplier)
    [] f = "scalar_offset_multiplier_constrain" ->
         IF lp.given THEN scalar_offset_multiplier_constrain_lp(this, a.offset, a.multiplier, lp)
         ELSE scalar_offset_multiplier_constrain(this, a.offset, a.multiplier)

\* A freshly constructed dense container: its coefficients are assigned before the
\* container is returned, and are never read before that.
dense(n, m) == matrix_t(n, m, [ij \in (0..(n - 1)) \X (0..(m - 1)) |-> 0])

vector_t(m) == dense(m, 1)

row_vector_t(m) == dense(1, m)

assign(v, i, j, x) == [v EXCEPT !.coeff[<<i, j>>] = x]

\* The end of a loop as if a read that found no scalar had advanced the cursor.
loop_exit_past_end(this, e, v, lp) ==
  [pos_ |-> IF e = NoMoreScalars THEN this.pos_ + 1 ELSE this.pos_, err |-> e, v |-> v,
   lp_ |-> lp]

loop_exit(this, e, v, lp) == [pos_ |-> this.pos_, err |-> e, v |-> v, lp_ |-> lp]

\* The loop of a vector batch as if it validated after consuming all m scalars.
RECURSIVE vector_loop_reads_all(_, _, _, _, _, _, _)
vector_loop_reads_all(this, f, a, m, i, v, lp) ==
  IF ~(i < m)
  THEN {loop_exit(this, NoError, v, lp)}
  ELSE UNION { IF x.err \in ValidationError
               THEN {loop_exit([x EXCEPT !.pos_ = this.pos_ + (m - i)], x.err, v, lp)}
               ELSE IF x.err # NoError
               THEN {loop_exit(x, x.err, v, lp)}
               ELSE vector_loop_reads_all([this EXCEPT !.pos_ = x.pos_], f, a, m, i + 1,
                                          assign(v, i, 0, x.ret[1]), x.lp_) :
               x \in scalar_level(this, f, a, lp) }

RECURSIVE vector_loop(_, _, _, _, _, _, _)
vector_loop(this, f, a, m, i, v, lp) ==
  IF ~(i < m)
  THEN {loop_exit(this, NoError, v, lp)}
  ELSE UNION { IF x.err # NoError
               THEN {loop_exit(x, x.err, v, lp)}
               ELSE vector_loop([this EXCEPT !.pos_ = x.pos_], f, a, m, i + 1,
                                assign(v, i, 0, x.ret[1]), x.lp_) :
               x \in scalar_level(this, f, a, lp) }

RECURSIVE row_vector_loop(_, _, _, _, _, _, _)
row_vector_loop(this, f, a, m, i, v, lp) ==
  IF ~(i < m)
  THEN {loop_exit(this, NoError, v, lp)}
  ELSE UNION { IF x.err # NoError
               THEN {loop_exit(x, x.err, v, lp)}
               ELSE row_vector_loop([this EXCEPT !.pos_ = x.pos_], f, a, m, i + 1,
                                    assign(v, 0, i, x.ret[1]), x.lp_) :
               x \in scalar_level(this, f, a, lp) }

RECURSIVE matrix_loop_rows_outer(_, _, _, _, _, _, _, _, _)
matrix_loop_rows_outer(this, f, a, n, m, j, i, v, lp) ==
  IF ~(i < n)
  THEN {loop_exit(this, NoError, v, lp)}
  ELSE IF ~(j < m)
  THEN matrix_loop_rows_outer(this, f, a, n, m, 0, i + 1, v, lp)
  ELSE UNION { IF x.err # NoError
               THEN {loop_exit(x, x.err, v, lp)}
               ELSE matrix_loop_rows_outer([this EXCEPT !.pos_ = x.pos_], f, a, n, m, j + 1, i,
                                           assign(v, i, j, x.ret[1]), x.lp_) :
               x \in scalar_level(this, f, a, lp) }

RECURSIVE matrix_loop(_, _, _, _, _, _, _, _, _)
matrix_loop(this, f, a, n, m, j, i, v, lp) ==
  IF ~(j < m)
  THEN {loop_exit(this, NoError, v, lp)}
  ELSE IF ~(i < n)
  THEN matrix_loop(this, f, a, n, m, j + 1, 0, v, lp)
  ELSE UNION { IF x.err # NoError
               THEN {loop_exit(x, x.err, v, lp)}
               ELSE matrix_loop([this EXCEPT !.pos_ = x.pos_], f, a, n, m, j, i + 1,
                                assign(v, i, j, x.ret[1]), x.lp_) :
               x \in scalar_level(this, f, a, lp) }

\* return v, or the exception of the call that threw; the accumulator is the caller's.
batch(this, loops) ==
  { [(IF l.err = NoError
      THEN Returns(this, l.v, l.pos_, this.int_pos_)
      ELSE Throws(this, l.err, l.pos_, this.int_pos_)) EXCEPT !.lp_ = l.lp_] : l \in loops }

vector_lb(this, lb, m) ==
  batch(this, vector_loop(this, "scalar_lb", ScalarArgs(lb, 0, 0, 0), m, 0, vector_t(m),
        NoAccumulator))

vector_lb_constrain(this, lb, m) ==
  batch(this, vector_loop(this, "scalar_lb_constrain", ScalarArgs(lb, 0, 0, 0), m, 0,
        vector_t(m), NoAccumulator))

vector_lb_constrain_lp(this, lb, m, lp) ==
  batch(this, vector_loop(this, "scalar_lb_constrain", ScalarArgs(lb, 0, 0, 0), m, 0,
        vector_t(m), lp))

row_vector_lb(this, lb, m) ==
  batch(this, row_vector_loop(this, "scalar_lb", ScalarArgs(lb, 0, 0, 0), m, 0, row_vector_t(m),
        NoAccumulator))

row_vector_lb_constrain(this, lb, m) ==
  batch(this, row_vector_loop(this, "scalar_lb_constrain", ScalarArgs(lb, 0, 0, 0), m, 0,
        row_vector_t(m), NoAccumulator))

row_vector_lb_constrain_lp(this, lb, m, lp) ==
  batch(this, row_vector_loop(this, "scalar_lb_constrain", ScalarArgs(lb, 0, 0, 0), m, 0,
        row_vector_t(m), lp))

matrix_lb_rows_outer(this, lb, n, m) ==
  batch(this, matrix_loop_rows_outer(this, "scalar_lb", ScalarArgs(lb, 0, 0, 0), n, m, 0, 0,
        dense(n, m), NoAccumulator))

matrix_lb(this, lb, n, m) ==
  batch(this, matrix_loop(this, "scalar_lb", ScalarArgs(lb, 0, 0, 0), n, m, 0, 0, dense(n, m),
        NoAccumulator))

matrix_lb_constrain(this, lb, n, m) ==
  batch(this, matrix_loop(this, "scalar_lb_constrain", ScalarArgs(lb, 0, 0, 0), n, m, 0, 0,
        dense(n, m), NoAccumulator))

matrix_lb_constrain_lp(this, lb, n, m, lp) ==
  batch(this, matrix_loop(this, "scalar_lb_constrain", ScalarArgs(lb, 0, 0, 0), n, m, 0, 0,
        dense(n, m), lp))

vector_ub(this, ub, m) ==
  batch(this, vector_loop(this, "scalar_ub", ScalarArgs(0, ub, 0, 0), m, 0, vector_t(m),
        NoAccumulator))

vector_ub_constrain(this, ub, m) ==
  batch(this, vector_loop(this, "scalar_ub_constrain", ScalarArgs(0, ub, 0, 0), m, 0,
        vector_t(m), NoAccumulator))

vector_ub_constrain_lp(this, ub, m, lp) ==
  batch(this, vector_loop(this, "scalar_ub_constrain", ScalarArgs(0, ub, 0, 0), m, 0,
        vector_t(m), lp))

row_vector_ub(this, ub, m) ==
  batch(this, row_vector_loop(this, "scalar_ub", ScalarArgs(0, ub, 0, 0), m, 0, row_vector_t(m),
        NoAccumulator))

row_vector_ub_constrain(this, ub, m) ==
  batch(this, row_vector_loop(this, "scalar_ub_constrain", ScalarArgs(0, ub, 0, 0), m, 0,
        row_vector_t(m), NoAccumulator))

row_vector_ub_constrain_lp(this, ub, m, lp) ==
  batch(this, row_vector_loop(this, "scalar_ub_constrain", ScalarArgs(0, ub, 0, 0), m, 0,
        row_vector_t(m), lp))

matrix_ub(this, ub, n, m) ==
  batch(this, matrix_loop(this, "scalar_ub", ScalarArgs(0, ub, 0, 0), n, m, 0, 0, dense(n, m),
        NoAccumulator))

matrix_ub_constrain(this, ub, n, m) ==
  batch(this, matrix_loop(this, "scalar_ub_constrain", ScalarArgs(0, ub, 0, 0), n, m, 0, 0,
        dense(n, m), NoAccumulator))

matrix_ub_constrain_lp(this, ub, n, m, lp) ==
  batch(this, matrix_loop(this, "scalar_ub_constrain", ScalarArgs(0, ub, 0, 0), n, m, 0, 0,
        dense(n, m), lp))

vector_lub(this, lb, ub, m) ==
  batch(this, vector_loop(this, "scalar_lub", ScalarArgs(lb, ub, 0, 0), m, 0, vector_t(m),
        NoAccumulator))

vector_lub_constrain(this, lb, ub, m) ==
  batch(this, vector_loop(this, "scalar_lub_constrain", ScalarArgs(lb, ub, 0, 0), m, 0,
        vector_t(m), NoAccumulator))

vector_lub_constrain_lp(this, lb, ub, m, lp) ==
  batch(this, vector_loop(this, "scalar_lub_constrain", ScalarArgs(lb, ub, 0, 0), m, 0,
        vector_t(m), lp))

row_vector_lub(this, lb, ub, m) ==
  batch(this, row_vector_loop(this, "scalar_lub", ScalarArgs(lb, ub, 0, 0), m, 0,
        row_vector_t(m), NoAccumulator))

row_vector_lub_constrain(this, lb, ub, m) ==
  batch(this, row_vector_loop(this, "scalar_lub_constrain", ScalarArgs(lb, ub, 0, 0), m, 0,
        row_vector_t(m), NoAccumulator))

row_vector_lub_constrain_lp(this, lb, ub, m, lp) ==
  batch(this, row_vector_loop(this, "scalar_lub_constrain", ScalarArgs(lb, ub, 0, 0), m, 0,
        row_vector_t(m), lp))

matrix_lub(this, lb, ub, n, m) ==
  batch(this, matrix_loop(this, "scalar_lub", ScalarArgs(lb, ub, 0, 0), n, m, 0, 0, dense(n, m),
        NoAccumulator))

matrix_lub_constrain(this, lb, ub, n, m) ==
  batch(this, matrix_loop(this, "scalar_lub_constrain", ScalarArgs(lb, ub, 0, 0), n, m, 0, 0,
        dense(n, m), NoAccumulator))

matrix_lub_constrain_lp(this, lb, ub, n, m, lp) ==
  batch(this, matrix_loop(this, "scalar_lub_constrain", ScalarArgs(lb, ub, 0, 0), n, m, 0, 0,
        dense(n, m), lp))

vector_offset_multiplier(this, offset, multiplier, m) ==
  batch(this, vector_loop(this, "scalar_offset_multiplier", ScalarArgs(0, 0, offset, multiplier),
        m, 0, vector_t(m), NoAccumulator))

vector_offset_multiplier_constrain(this, offset, multiplier, m) ==
  batch(this, vector_loop(this, "scalar_offset_multiplier_constrain", ScalarArgs(0, 0, offset,
        multiplier), m, 0, vector_t(m), NoAccumulator))

vector_offset_multiplier_constrain_lp(this, offset, multiplier, m, lp) ==
  batch(this, vector_loop(this, "scalar_offset_multiplier_constrain", ScalarArgs(0, 0, offset,
        multiplier), m, 0, vector_t(m), lp))

row_vector_offset_multiplier(this, offset, multiplier, m) ==
  batch(this, row_vector_loop(this, "scalar_offset_multiplier", ScalarArgs(0, 0, offset,
        multiplier), m, 0, row_vector_t(m), NoAccumulator))

row_vector_offset_multiplier_constrain(this, offset, multiplier, m) ==
  batch(this, row_vector_loop(this, "scalar_offset_multiplier_constrain", ScalarArgs(0, 0,
        offset, multiplier), m, 0, row_vector_t(m), NoAccumulator))

row_vector_offset_multiplier_constrain_lp(this, offset, multiplier, m, lp) ==
  batch(this, row_vector_loop(this, "scalar_offset_multiplier_constrain", ScalarArgs(0, 0,
        offset, multiplier), m, 0, row_vector_t(m), lp))

matrix_offset_multiplier(this, offset, multiplier, n, m) ==
  batch(this, matrix_loop(this, "scalar_offset_multiplier", ScalarArgs(0, 0, offset, multiplier),
        n, m, 0, 0, dense(n, m), NoAccumulator))

matrix_offset_multiplier_constrain(this, offset, multiplier, n, m) ==
  batch(this, matrix_loop(this, "scalar_offset_multiplier_constrain", ScalarArgs(0, 0, offset,
        multiplier), n, m, 0, 0, dense(n, m), NoAccumulator))

matrix_offset_multiplier_constrain_lp(this, offset, multiplier, n, m, lp) ==
  batch(this, matrix_loop(this, "scalar_offset_multiplier_constrain", ScalarArgs(0, 0, offset,
        multiplier), n, m, 0, 0, dense(n, m), lp))


(***************************************************************************)
(* Bounded sparse matrices, plain form.  sparse_matrix_lb reserves room    *)
(* for the triplets and pushes one triplet per listed nonzero onto an      *)
(* empty list; sparse_matrix_ub constructs the list with vec_r.size()      *)
(* default triplets and appends to that.  The loop stops at the first      *)
(* scalar-level read that throws.                                          *)
(***************************************************************************)
RECURSIVE sparse_matrix_lb_loop(_, _, _, _, _, _)
sparse_matrix_lb_loop(this, lb, vec_r, vec_c, i, triplet_list) ==
  IF ~(i < Size(vec_r))
  THEN {[pos_ |-> this.pos_, err |-> NoError, triplet_list |-> triplet_list]}
  ELSE UNION { IF x.err # NoError
               THEN {[pos_ |-> x.pos_, err |-> x.err, triplet_list |-> triplet_list]}
               ELSE sparse_matrix_lb_loop([this EXCEPT !.pos_ = x.pos_], lb, vec_r, vec_c, i + 1,
                      Append(triplet_list, triplet_type(vec_r[i + 1], vec_c[i + 1], x.ret[1]))) :
               x \in scalar_lb(this, lb) }

sparse_matrix_lb(this, lb, vec_r, vec_c, n, m) ==
  IF m = 0 \/ n = 0
  THEN {Returns(this, setFromTriplets(n, m, <<>>), this.pos_, this.int_pos_)}
  ELSE { IF l.err = NoError
         THEN Returns(this, setFromTriplets(n, m, l.triplet_list), l.pos_, this.int_pos_)
         ELSE Throws(this, l.err, l.pos_, this.int_pos_) :
           l \in sparse_matrix_lb_loop(this, lb, vec_r, vec_c, 0, <<>>) }

RECURSIVE sparse_matrix_ub_loop(_, _, _, _, _, _)
sparse_matrix_ub_loop(this, ub, vec_r, vec_c, i, triplet_list) ==
  IF ~(i < Size(vec_r))
  THEN {[pos_ |-> this.pos_, err |-> NoError, triplet_list |-> triplet_list]}
  ELSE UNION { IF x.err # NoError
               THEN {[pos_ |-> x.pos_, err |-> x.err, triplet_list |-> triplet_list]}
               ELSE sparse_matrix_ub_loop([this EXCEPT !.pos_ = x.pos_], ub, vec_r, vec_c, i + 1,
                      Append(triplet_list, triplet_type(vec_r[i + 1], vec_c[i + 1], x.ret[1]))) :
               x \in scalar_ub(this, ub) }

sparse_matrix_ub(this, ub, vec_r, vec_c, n, m) ==
  IF m = 0 \/ n = 0
  THEN {Returns(this, setFromTriplets(n, m, <<>>), this.pos_, this.int_pos_)}
  ELSE { IF l.err = NoError
         THEN Returns(this, setFromTriplets(n, m, l.triplet_list), l.pos_, this.int_pos_)
         ELSE Throws(this, l.err, l.pos_, this.int_pos_) :
           l \in sparse_matrix_ub_loop(this, ub, vec_r, vec_c, 0, default_triplets(Size(vec_r))) }

(***************************************************************************)
(* Bounded sparse matrices, the other forms.  Each constructs the triplet  *)
(* list with vec_r.size() default triplets and appends one triplet per     *)
(* listed nonzero, its value from a scalar-level accessor.  Both constrain *)
(* forms of sparse_matrix_offset_multiplier call scalar_offset_multiplier; *)
(* the form with an accumulator calls it with three arguments, and the     *)
(* reader has no member function of that name taking three: a program that *)
(* calls this form does not build.                                         *)
(***************************************************************************)
RECURSIVE sparse_loop(_, _, _, _, _, _, _, _)
sparse_loop(this, f, a, vec_r, vec_c, i, triplet_list, lp) ==
  IF ~(i < Size(vec_r))
  THEN {[pos_ |-> this.pos_, err |-> NoError, triplet_list |-> triplet_list, lp_ |-> lp]}
  ELSE UNION { IF x.err # NoError
               THEN {[pos_ |-> x.pos_, err |-> x.err, triplet_list |-> triplet_list, lp_ |-> lp]}
               ELSE sparse_loop([this EXCEPT !.pos_ = x.pos_], f, a, vec_r, vec_c, i + 1,
                      Append(triplet_list, triplet_type(vec_r[i + 1], vec_c[i + 1], x.ret[1])),
                      x.lp_) :
               x \in scalar_level(this, f, a, lp) }

sparse_batch(this, n, m, lp, loops) ==
  IF m = 0 \/ n = 0
  THEN {[Returns(this, setFromTriplets(n, m, <<>>), this.pos_, this.int_pos_) EXCEPT !.lp_ = lp]}
  ELSE { [(IF l.err = NoError
           THEN Returns(this, setFromTriplets(n, m, l.triplet_list), l.pos_, this.int_pos_)
           ELSE Throws(this, l.err, l.pos_, this.int_pos_)) EXCEPT !.lp_ = l.lp_] : l \in loops }

sparse_matrix_lb_constrain(this, lb, vec_r, vec_c, n, m) ==
  sparse_batch(this, n, m, NoAccumulator,
    sparse_loop(this, "scalar_lb_constrain", ScalarArgs(lb, 0, 0, 0), vec_r, vec_c, 0,
                default_triplets(Size(vec_r)), NoAccumulator))

sparse_matrix_lb_constrain_lp(this, lb, vec_r, vec_c, n, m, lp) ==
  sparse_batch(this, n, m, lp,
    sparse_loop(this, "scalar_lb_constrain", ScalarArgs(lb, 0, 0, 0), vec_r, vec_c, 0,
                default_triplets(Size(vec_r)), lp))

sparse_matrix_ub_constrain(this, ub, vec_r, vec_c, n, m) ==
  sparse_batch(this, n, m, NoAccumulator,
    sparse_loop(this, "scalar_ub_constrain", ScalarArgs(0, ub, 0, 0), vec_r, vec_c, 0,
                default_triplets(Size(vec_r)), NoAccumulator))

sparse_matrix_ub_constrain_lp(this, ub, vec_r, vec_c, n, m, lp) ==
  sparse_batch(this, n, m, lp,
    sparse_loop(this, "scalar_ub_constrain", ScalarArgs(0, ub, 0, 0), vec_r, vec_c, 0,
                default_triplets(Size(vec_r)), lp))

sparse_matrix_lub(this, lb, ub, vec_r, vec_c, n, m) ==
  sparse_batch(this, n, m, NoAccumulator,
    sparse_loop(this, "scalar_lub", ScalarArgs(lb, ub, 0, 0), vec_r, vec_c, 0,
                default_triplets(Size(vec_r)), NoAccumulator))

sparse_matrix_lub_constrain(this, lb, ub, vec_r, vec_c, n, m) ==
  sparse_batch(this, n, m, NoAccumulator,
    sparse_loop(this, "scalar_lub_constrain", ScalarArgs(lb, ub, 0, 0), vec_r, vec_c, 0,
                default_triplets(Size(vec_r)), NoAccumulator))

sparse_matrix_lub_constrain_lp(this, lb, ub, vec_r, vec_c, n, m, lp) ==
  sparse_batch(this, n, m, lp,
    sparse_loop(this, "scalar_lub_constrain", ScalarArgs(lb, ub, 0, 0), vec_r, vec_c, 0,
                default_triplets(Size(vec_r)), lp))

sparse_matrix_offset_multiplier(this, offset, multiplier, vec_r, vec_c, n, m) ==
  sparse_batch(this, n, m, NoAccumulator,
    sparse_loop(this, "scalar_offset_multiplier", ScalarArgs(0, 0, offset, multiplier),
                vec_r, vec_c, 0, default_triplets(Size(vec_r)), NoAccumulator))

sparse_matrix_offset_multiplier_constrain(this, offset, multiplier, vec_r, vec_c, n, m) ==
  sparse_batch(this, n, m, NoAccumulator,
    sparse_loop(this, "scalar_offset_multiplier", ScalarArgs(0, 0, offset, multiplier),
                vec_r, vec_c, 0, default_triplets(Size(vec_r)), NoAccumulator))

sparse_matrix_offset_multiplier_constrain_lp(this, offset, multiplier, vec_r, vec_c, n, m, lp) ==
  {[Throws(this, NoMatchingFunction, this.pos_, this.int_pos_) EXCEPT !.lp_ = lp]}

(***************************************************************************)
(* The public interface as one operator: the outcomes of the member        *)
(* function `name` called with the arguments a, with or without an         *)
(* accumulator (a.lp).                                                     *)
(***************************************************************************)
Outcomes(this, name, a) ==
  CASE name = "available" ->
         available(this)
    [] name = "available_i" ->
         available_i(this)
    [] name = "integer" ->
         integer(this)
    [] name = "scalar" ->
         scalar(this)
    [] name = "std_vector" ->
         std_vector(this, a.m)
    [] name = "vector" ->
         vector(this, a.m)
    [] name = "row_vector" ->
         row_vector(this, a.m)
    [] name = "matrix" ->
         matrix(this, a.n, a.m)
    [] name = "sparse_matrix" ->
         sparse_matrix(this, a.vec_r, a.vec_c, a.n, a.m)
    [] name = "integer_constrain" /\ ~a.lp ->
         integer_constrain(this)
    [] name = "integer_constrain" /\ a.lp ->
         integer_constrain_lp(this, LogProb)
    [] name = "scalar_constrain" /\ ~a.lp ->
         scalar_constrain(this)
    [] name = "scalar_constrain" /\ a.lp ->
         scalar_constrain_lp(this, LogProb)
    [] name = "vector_constrain" /\ ~a.lp ->
         vector_constrain(this, a.m)
    [] name = "vector_constrain" /\ a.lp ->
         vector_constrain_lp(this, a.m, LogProb)
    [] name = "row_vector_constrain" /\ ~a.lp ->
         row_vector_constrain(this, a.m)
    [] name = "row_vector_constrain" /\ a.lp ->
         row_vector_constrain_lp(this, a.m, LogProb)
    [] name = "matrix_constrain" /\ ~a.lp ->
         matrix_constrain(this, a.n, a.m)
    [] name = "matrix_constrain" /\ a.lp ->
         matrix_constrain_lp(this, a.n, a.m, LogProb)
    [] name = "sparse_matrix_constrain" /\ ~a.lp ->
         sparse_matrix_constrain(this, a.vec_r, a.vec_c, a.n, a.m)
    [] name = "sparse_matrix_constrain" /\ a.lp ->
         sparse_matrix_constrain_lp(this, a.vec_r, a.vec_c, a.n, a.m, LogProb)
    [] name = "unit_vector" ->
         unit_vector(this, a.k)
    [] name = "simplex" ->
         simplex(this, a.k)
    [] name = "ordered" ->
         ordered(this, a.k)
    [] name = "positive_ordered" ->
         positive_ordered(this, a.k)
    [] name = "cholesky_factor_cov" ->
         cholesky_factor_cov(this, a.n, a.m)
    [] name = "cholesky_factor_corr" ->
         cholesky_factor_corr(this, a.k)
    [] name = "cov_matrix" ->
         cov_matrix(this, a.k)
    [] name = "corr_matrix" ->
         corr_matrix(this, a.k)
    [] name = "unit_vector_constrain" /\ ~a.lp ->
         unit_vector_constrain(this, a.k)
    [] name = "unit_vector_constrain" /\ a.lp ->
         unit_vector_constrain_lp(this, a.k, LogProb)
    [] name = "simplex_constrain" /\ ~a.lp ->
         simplex_constrain(this, a.k)
    [] name = "simplex_constrain" /\ a.lp ->
         simplex_constrain_lp(this, a.k, LogProb)
    [] name = "ordered_constrain" /\ ~a.lp ->
         ordered_constrain(this, a.k)
    [] name = "ordered_constrain" /\ a.lp ->
         ordered_constrain_lp(this, a.k, LogProb)
    [] name = "positive_ordered_constrain" /\ ~a.lp ->
         positive_ordered_constrain(this, a.k)
    [] name = "positive_ordered_constrain" /\ a.lp ->
         positive_ordered_constrain_lp(this, a.k, LogProb)
    [] name = "cholesky_factor_cov_constrain" /\ ~a.lp ->
         cholesky_factor_cov_constrain(this, a.n, a.m)
    [] name = "cholesky_factor_cov_constrain" /\ a.lp ->
         cholesky_factor_cov_constrain_lp(this, a.n, a.m, LogProb)
    [] name = "cholesky_factor_corr_constrain" /\ ~a.lp ->
         cholesky_factor_corr_constrain(this, a.k)
    [] name = "cholesky_factor_corr_constrain" /\ a.lp ->
         cholesky_factor_corr_constrain_lp(this, a.k, LogProb)
    [] name = "cov_matrix_constrain" /\ ~a.lp ->
         cov_matrix_constrain(this, a.k)
    [] name = "cov_matrix_constrain" /\ a.lp ->
         cov_matrix_constrain_lp(this, a.k, LogProb)
    [] name = "corr_matrix_constrain" /\ ~a.lp ->
         corr_matrix_constrain(this, a.k)
    [] name = "corr_matrix_constrain" /\ a.lp ->
         corr_matrix_constrain_lp(this, a.k, LogProb)
    [] name = "sparse_matrix_lb" ->
         sparse_matrix_lb(this, a.lb, a.vec_r, a.vec_c, a.n, a.m)
    [] name = "sparse_matrix_ub" ->
         sparse_matrix_ub(this, a.ub, a.vec_r, a.vec_c, a.n, a.m)
    [] name = "scalar_pos" ->
         scalar_pos(this)
    [] name = "scalar_pos_constrain" /\ ~a.lp ->
         scalar_pos_constrain(this)
    [] name = "scalar_pos_constrain" /\ a.lp ->
         scalar_pos_constrain_lp(this, LogProb)
    [] name = "prob" ->
         prob(this)
    [] name = "prob_constrain" /\ ~a.lp ->
         prob_constrain(this)
    [] name = "prob_constrain" /\ a.lp ->
         prob_constrain_lp(this, LogProb)
    [] name = "corr" ->
         corr(this)
    [] name = "corr_constrain" /\ ~a.lp ->
         corr_constrain(this)
    [] name = "corr_constrain" /\ a.lp ->
         corr_constrain_lp(this, LogProb)
    [] name = "scalar_lb" ->
         scalar_lb(this, a.lb)
    [] name = "scalar_lb_constrain" /\ ~a.lp ->
         scalar_lb_constrain(this, a.lb)
    [] name = "scalar_lb_constrain" /\ a.lp ->
         scalar_lb_constrain_lp(this, a.lb, LogProb)
    [] name = "scalar_ub" ->
         scalar_ub(this, a.ub)
    [] name = "scalar_ub_constrain" /\ ~a.lp ->
         scalar_ub_constrain(this, a.ub)
    [] name = "scalar_ub_constrain" /\ a.lp ->
         scalar_ub_constrain_lp(this, a.ub, LogProb)
    [] name = "scalar_lub" ->
         scalar_lub(this, a.lb, a.ub)
    [] name = "scalar_lub_constrain" /\ ~a.lp ->
         scalar_lub_constrain(this, a.lb, a.ub)
    [] name = "scalar_lub_constrain" /\ a.lp ->
         scalar_lub_constrain_lp(this, a.lb, a.ub, LogProb)
    [] name = "scalar_offset_multiplier" ->
         scalar_offset_multiplier(this, a.offset, a.multiplier)
    [] name = "scalar_offset_multiplier_constrain" /\ ~a.lp ->
         scalar_offset_multiplier_constrain(this, a.offset, a.multiplier)
    [] name = "scalar_offset_multiplier_constrain" /\ a.lp ->
         scalar_offset_multiplier_constrain_lp(this, a.offset, a.multiplier, LogProb)
    [] name = "vector_lb" ->
         vector_lb(this, a.lb, a.m)
    [] name = "vector_lb_constrain" /\ ~a.lp ->
         vector_lb_constrain(this, a.lb, a.m)
    [] name = "vector_lb_constrain" /\ a.lp ->
         vector_lb_constrain_lp(this, a.lb, a.m, LogProb)
    [] name = "row_vector_lb" ->
         row_vector_lb(this, a.lb, a.m)
    [] name = "row_vector_lb_constrain" /\ ~a.lp ->
         row_vector_lb_constrain(this, a.lb, a.m)
    [] name = "row_vector_lb_constrain" /\ a.lp ->
         row_vector_lb_constrain_lp(this, a.lb, a.m, LogProb)
    [] name = "matrix_lb" ->
         matrix_lb(this, a.lb, a.n, a.m)
    [] name = "matrix_lb_constrain" /\ ~a.lp ->
         matrix_lb_constrain(this, a.lb, a.n, a.m)
    [] name = "matrix_lb_constrain" /\ a.lp ->
         matrix_lb_constrain_lp(this, a.lb, a.n, a.m, LogProb)
    [] name = "vector_ub" ->
         vector_ub(this, a.ub, a.m)
    [] name = "vector_ub_constrain" /\ ~a.lp ->
         vector_ub_constrain(this, a.ub, a.m)
    [] name = "vector_ub_constrain" /\ a.lp ->
         vector_ub_constrain_lp(this, a.ub, a.m, LogProb)
    [] name = "row_vector_ub" ->
         row_vector_ub(this, a.ub, a.m)
    [] name = "row_vector_ub_constrain" /\ ~a.lp ->
         row_vector_ub_constrain(this, a.ub, a.m)
    [] name = "row_vector_ub_constrain" /\ a.lp ->
         row_vector_ub_constrain_lp(this, a.ub, a.m, LogProb)
    [] name = "matrix_ub" ->
         matrix_ub(this, a.ub, a.n, a.m)
    [] name = "matrix_ub_constrain" /\ ~a.lp ->
         matrix_ub_constrain(this, a.ub, a.n, a.m)
    [] name = "matrix_ub_constrain" /\ a.lp ->
         matrix_ub_constrain_lp(this, a.ub, a.n, a.m, LogProb)
    [] name = "vector_lub" ->
         vector_lub(this, a.lb, a.ub, a.m)
    [] name = "vector_lub_constrain" /\ ~a.lp ->
         vector_lub_constrain(this, a.lb, a.ub, a.m)
    [] name = "vector_lub_constrain" /\ a.lp ->
         vector_lub_constrain_lp(this, a.lb, a.ub, a.m, LogProb)
    [] name = "row_vector_lub" ->
         row_vector_lub(this, a.lb, a.ub, a.m)
    [] name = "row_vector_lub_constrain" /\ ~a.lp ->
         row_vector_lub_constrain(this, a.lb, a.ub, a.m)
    [] name = "row_vector_lub_constrain" /\ a.lp ->
         row_vector_lub_constrain_lp(this, a.lb, a.ub, a.m, LogProb)
    [] name = "matrix_lub" ->
         matrix_lub(this, a.lb, a.ub, a.n, a.m)
    [] name = "matrix_lub_constrain" /\ ~a.lp ->
         matrix_lub_constrain(this, a.lb, a.ub, a.n, a.m)
    [] name = "matrix_lub_constrain" /\ a.lp ->
         matrix_lub_constrain_lp(this, a.lb, a.ub, a.n, a.m, LogProb)
    [] name = "vector_offset_multiplier" ->
         vector_offset_multiplier(this, a.offset, a.multiplier, a.m)
    [] name = "vector_offset_multiplier_constrain" /\ ~a.lp ->
         vector_offset_multiplier_constrain(this, a.offset, a.multiplier, a.m)
    [] name = "vector_offset_multiplier_constrain" /\ a.lp ->
         vector_offset_multiplier_constrain_lp(this, a.offset, a.multiplier, a.m, LogProb)
    [] name = "row_vector_offset_multiplier" ->
         row_vector_offset_multiplier(this, a.offset, a.multiplier, a.m)
    [] name = "row_vector_offset_multiplier_constrain" /\ ~a.lp ->
         row_vector_offset_multiplier_constrain(this, a.offset, a.multiplier, a.m)
    [] name = "row_vector_offset_multiplier_constrain" /\ a.lp ->
         row_vector_offset_multiplier_constrain_lp(this, a.offset, a.multiplier, a.m, LogProb)
    [] name = "matrix_offset_multiplier" ->
         matrix_offset_multiplier(this, a.offset, a.multiplier, a.n, a.m)
    [] name = "matrix_offset_multiplier_constrain" /\ ~a.lp ->
         matrix_offset_multiplier_constrain(this, a.offset, a.multiplier, a.n, a.m)
    [] name = "matrix_offset_multiplier_constrain" /\ a.lp ->
         matrix_offset_multiplier_constrain_lp(this, a.offset, a.multiplier, a.n, a.m, LogProb)
    [] name = "sparse_matrix_lb_constrain" /\ ~a.lp ->
         sparse_matrix_lb_constrain(this, a.lb, a.vec_r, a.vec_c, a.n, a.m)
    [] name = "sparse_matrix_lb_constrain" /\ a.lp ->
         sparse_matrix_lb_constrain_lp(this, a.lb, a.vec_r, a.vec_c, a.n, a.m, LogProb)
    [] name = "sparse_matrix_ub_constrain" /\ ~a.lp ->
         sparse_matrix_ub_constrain(this, a.ub, a.vec_r, a.vec_c, a.n, a.m)
    [] name = "sparse_matrix_ub_constrain" /\ a.lp ->
         sparse_matrix_ub_constrain_lp(this, a.ub, a.vec_r, a.vec_c, a.n, a.m, LogProb)
    [] name = "sparse_matrix_lub" ->
         sparse_matrix_lub(this, a.lb, a.ub, a.vec_r, a.vec_c, a.n, a.m)
    [] name = "sparse_matrix_lub_constrain" /\ ~a.lp ->
         sparse_matrix_lub_constrain(this, a.lb, a.ub, a.vec_r, a.vec_c, a.n, a.m)
    [] name = "sparse_matrix_lub_constrain" /\ a.lp ->
         sparse_matrix_lub_constrain_lp(this, a.lb, a.ub, a.vec_r, a.vec_c, a.n, a.m, LogProb)
    [] name = "sparse_matrix_offset_multiplier" ->
         sparse_matrix_offset_multiplier(this, a.offset, a.multiplier, a.vec_r, a.vec_c, a.n, a.m)
    [] name = "sparse_matrix_offset_multiplier_constrain" /\ ~a.lp ->
         sparse_matrix_offset_multiplier_constrain(this, a.offset, a.multiplier, a.vec_r,
                                                   a.vec_c, a.n, a.m)
    [] name = "sparse_matrix_offset_multiplier_constrain" /\ a.lp ->
         sparse_matrix_offset_multiplier_constrain_lp(this, a.offset, a.multiplier, a.vec_r,
                                                      a.vec_c, a.n, a.m, LogProb)
    [] name = "integer_lb" ->
         integer_lb(this, a.lb)
    [] name = "integer_lb_constrain" /\ ~a.lp ->
         integer_lb_constrain(this, a.lb)
    [] name = "integer_lb_constrain" /\ a.lp ->
         integer_lb_constrain_lp(this, a.lb, LogProb)
    [] name = "integer_ub" ->
         integer_ub(this, a.ub)
    [] name = "integer_ub_constrain" /\ ~a.lp ->
         integer_ub_constrain(this, a.ub)
    [] name = "integer_ub_constrain" /\ a.lp ->
         integer_ub_constrain_lp(this, a.ub, LogProb)
    [] name = "integer_lub" ->
         integer_lub(this, a.lb, a.ub)
    [] name = "integer_lub_constrain" /\ ~a.lp ->
         integer_lub_constrain(this, a.lb, a.ub)
    [] name = "integer_lub_constrain" /\ a.lp ->
         integer_lub_constrain_lp(this, a.lb, a.ub, LogProb)

(***************************************************************************)
(* The state machine: one reader, driven by a caller that may invoke any   *)
(* accessor with any argument.  op, args, pos0 and int_pos0 record the     *)
(* last call, its arguments and the cursors before it; ret and err record  *)
(* what it returned or threw; integers_read is the sequence of values the  *)
(* successful integer() calls have returned so far (those made by the      *)
(* bounded integer accessors included); log_prob is the accumulator the    *)
(* last call was given, as that call left it.  second holds the cursors of *)
(* a second reader instance constructed over the same two sequences,       *)
(* instance names the instance the last call was made on, and threads      *)
(* holds, for each thread of a caller that calls from two threads, how far *)
(* its call has got.                                                       *)
(***************************************************************************)
This == [data_r_ |-> data_r, data_i_ |-> data_i, pos_ |-> pos, int_pos_ |-> int_pos]

\* The threads of a concurrent caller, and a thread that has not called yet.
Threads == {1, 2}

InCallerThread == [pc |-> "caller", fn |-> "none", index |-> 0, got |-> <<>>]

NoArgs == [n |-> 0, m |-> 0, vec_r |-> <<>>, vec_c |-> <<>>, k |-> 0, lb |-> 0, ub |-> 0,
           offset |-> 0, multiplier |-> 0, lp |-> FALSE]

(***************************************************************************)
(* Index sequences handed to sparse_matrix: equal lengths (the caller's    *)
(* obligation), k nonzeros listed with decreasing row index and increasing *)
(* column index (so not sorted by row), every index a cell of a MaxDim x   *)
(* MaxDim matrix.                                                          *)
(***************************************************************************)
IndexPairs ==
  {<<[i \in 1..k |-> k - i], [i \in 1..k |-> i - 1]>> : k \in 0..MaxNnz}

Within(count) == pos + count <= Len(data_r) + MaxOverrun

\* The scalars a vector(count) call reads: none when count is a negative index.
Reads(count) == IF count > IndexMax THEN 0 ELSE count

Init ==
  /\ \E input \in Inputs : data_r = input[1] /\ data_i = input[2]
  /\ LET r == reader(data_r, data_i) IN pos = r.pos_ /\ int_pos = r.int_pos_
  /\ op = "reader"
  /\ args = NoArgs
  /\ pos0 = 0
  /\ int_pos0 = 0
  /\ ret = <<>>
  /\ err = NoError
  /\ integers_read = <<>>
  /\ log_prob = NoAccumulator
  /\ LET r == reader(data_r, data_i) IN second = [pos_ |-> r.pos_, int_pos_ |-> r.int_pos_]
  /\ instance = "first"
  /\ threads = [t \in Threads |-> InCallerThread]

\* The reader is single-threaded and synchronous: a call is made when control is in
\* the caller, that is after construction or once the previous call's result or
\* exception has been taken.
InCaller == op \in {"reader", "caller"}

\* A second reader instance over the same two sequences and the threads of a
\* concurrent caller play no part while one caller drives one reader.
OneReaderOneCaller == UNCHANGED <<second, instance, threads>>

Call(name, a, outcomes) ==
  /\ InCaller
  /\ err \notin Fatal
  /\ OneReaderOneCaller
  /\ \E o \in outcomes :
       /\ pos' = o.pos_
       /\ int_pos' = o.int_pos_
       /\ ret' = o.ret
       /\ err' = o.err
       /\ log_prob' = o.lp_
       /\ data_r' = o.data_r_
       /\ data_i' = o.data_i_
  /\ op' = name
  /\ args' = a
  /\ pos0' = pos
  /\ int_pos0' = int_pos

\* Control is back in the caller, which has taken what the call returned or threw;
\* nothing of the call is left but the reader's cursors.  There is no way back from
\* the death of the process.
ReturnToCaller ==
  /\ ~InCaller
  /\ err \notin Fatal
  /\ op' = "caller"
  /\ args' = NoArgs
  /\ pos0' = pos
  /\ int_pos0' = int_pos
  /\ ret' = <<>>
  /\ err' = NoError
  /\ log_prob' = NoAccumulator
  /\ OneReaderOneCaller
  /\ UNCHANGED <<data_r, data_i, pos, int_pos, integers_read>>

Available ==
  /\ Within(0)
  /\ Call("available", NoArgs, available(This))
  /\ UNCHANGED integers_read

AvailableI ==
  /\ Within(0)
  /\ Call("available_i", NoArgs, available_i(This))
  /\ UNCHANGED integers_read

Integer ==
  /\ Within(0)
  /\ Call("integer", NoArgs, integer(This))
  /\ integers_read' = IF err' = NoError THEN Append(integers_read, ret'[1]) ELSE integers_read

Scalar ==
  /\ Within(1)
  /\ Call("scalar", NoArgs, scalar(This))
  /\ UNCHANGED integers_read

StdVector ==
  \E m \in 0..MaxVec :
    /\ Within(m)
    /\ Call("std_vector", [NoArgs EXCEPT !.m = m], std_vector(This, m))
    /\ UNCHANGED integers_read

Vector ==
  \E m \in 0..MaxVec :
    /\ Within(m)
    /\ Call("vector", [NoArgs EXCEPT !.m = m], vector(This, m))
    /\ UNCHANGED integers_read

RowVector ==
  \E m \in 0..MaxVec :
    /\ Within(m)
    /\ Call("row_vector", [NoArgs EXCEPT !.m = m], row_vector(This, m))
    /\ UNCHANGED integers_read

Matrix ==
  \E n \in 0..MaxDim, m \in 0..MaxDim :
    /\ Within(n * m)
    /\ Call("matrix", [NoArgs EXCEPT !.n = n, !.m = m], matrix(This, n, m))
    /\ UNCHANGED integers_read

SparseMatrix ==
  \E vv \in IndexPairs, n \in SparseDims, m \in SparseDims :
    /\ Within(Len(vv[1]))
    /\ Call("sparse_matrix", [NoArgs EXCEPT !.n = n, !.m = m, !.vec_r = vv[1], !.vec_c = vv[2]],
            sparse_matrix(This, vv[1], vv[2], n, m))
    /\ UNCHANGED integers_read

IntegerConstrain ==
  /\ Within(0)
  /\ \/ Call("integer_constrain", NoArgs, integer_constrain(This))
     \/ Call("integer_constrain", [NoArgs EXCEPT !.lp = TRUE],
             integer_constrain_lp(This, LogProb))
  /\ integers_read' = IF err' = NoError THEN Append(integers_read, ret'[1]) ELSE integers_read

ScalarConstrain ==
  /\ Within(1)
  /\ \/ Call("scalar_constrain", NoArgs, scalar_constrain(This))
     \/ Call("scalar_constrain", [NoArgs EXCEPT !.lp = TRUE], scalar_constrain_lp(This, LogProb))
  /\ UNCHANGED integers_read

VectorConstrain ==
  \E m \in 0..MaxVec :
    /\ Within(m)
    /\ \/ Call("vector_constrain", [NoArgs EXCEPT !.m = m], vector_constrain(This, m))
       \/ Call("vector_constrain", [NoArgs EXCEPT !.m = m, !.lp = TRUE],
               vector_constrain_lp(This, m, LogProb))
    /\ UNCHANGED integers_read

RowVectorConstrain ==
  \E m \in 0..MaxVec :
    /\ Within(m)
    /\ \/ Call("row_vector_constrain", [NoArgs EXCEPT !.m = m], row_vector_constrain(This, m))
       \/ Call("row_vector_constrain", [NoArgs EXCEPT !.m = m, !.lp = TRUE],
               row_vector_constrain_lp(This, m, LogProb))
    /\ UNCHANGED integers_read

MatrixConstrain ==
  \E n \in 0..MaxDim, m \in 0..MaxDim :
    /\ Within(n * m)
    /\ \/ Call("matrix_constrain", [NoArgs EXCEPT !.n = n, !.m = m], matrix_constrain(This, n, m))
       \/ Call("matrix_constrain", [NoArgs EXCEPT !.n = n, !.m = m, !.lp = TRUE],
               matrix_constrain_lp(This, n, m, LogProb))
    /\ UNCHANGED integers_read

SparseMatrixConstrain ==
  \E vv \in IndexPairs, n \in SparseDims, m \in SparseDims :
    /\ Within(Len(vv[1]))
    /\ \/ Call("sparse_matrix_constrain",
               [NoArgs EXCEPT !.n = n, !.m = m, !.vec_r = vv[1], !.vec_c = vv[2]],
               sparse_matrix_constrain(This, vv[1], vv[2], n, m))
       \/ Call("sparse_matrix_constrain",
               [NoArgs EXCEPT !.n = n, !.m = m, !.vec_r = vv[1], !.vec_c = vv[2], !.lp = TRUE],
               sparse_matrix_constrain_lp(This, vv[1], vv[2], n, m, LogProb))
    /\ UNCHANGED integers_read

UnitVector ==
  \E k \in 0..MaxDim :
    /\ Within(k)
    /\ Call("unit_vector", [NoArgs EXCEPT !.k = k], unit_vector(This, k))
    /\ UNCHANGED integers_read

Simplex ==
  \E k \in 0..MaxDim :
    /\ Within(k)
    /\ Call("simplex", [NoArgs EXCEPT !.k = k], simplex(This, k))
    /\ UNCHANGED integers_read

Ordered ==
  \E k \in 0..MaxDim :
    /\ Within(k)
    /\ Call("ordered", [NoArgs EXCEPT !.k = k], ordered(This, k))
    /\ UNCHANGED integers_read

PositiveOrdered ==
  \E k \in 0..MaxDim :
    /\ Within(k)
    /\ Call("positive_ordered", [NoArgs EXCEPT !.k = k], positive_ordered(This, k))
    /\ UNCHANGED integers_read

CholeskyFactorCov ==
  \E n \in 0..MaxDim, m \in 0..MaxDim :
    /\ Within(n * m)
    /\ Call("cholesky_factor_cov", [NoArgs EXCEPT !.n = n, !.m = m],
            cholesky_factor_cov(This, n, m))
    /\ UNCHANGED integers_read

CholeskyFactorCorr ==
  \E K \in 0..MaxDim :
    /\ Within(K * K)
    /\ Call("cholesky_factor_corr", [NoArgs EXCEPT !.k = K], cholesky_factor_corr(This, K))
    /\ UNCHANGED integers_read

CovMatrix ==
  \E k \in 0..MaxDim :
    /\ Within(k * k)
    /\ Call("cov_matrix", [NoArgs EXCEPT !.k = k], cov_matrix(This, k))
    /\ UNCHANGED integers_read

CorrMatrix ==
  \E k \in 0..MaxDim :
    /\ Within(k * k)
    /\ Call("corr_matrix", [NoArgs EXCEPT !.k = k], corr_matrix(This, k))
    /\ UNCHANGED integers_read

UnitVectorConstrain ==
  \E k \in 0..MaxDim :
    /\ Within(k)
    /\ \/ Call("unit_vector_constrain", [NoArgs EXCEPT !.k = k], unit_vector_constrain(This, k))
       \/ Call("unit_vector_constrain", [NoArgs EXCEPT !.k = k, !.lp = TRUE],
               unit_vector_constrain_lp(This, k, LogProb))
    /\ UNCHANGED integers_read

SimplexConstrain ==
  \E k \in 0..MaxDim :
    /\ Within(IF k = 0 THEN 0 ELSE k - 1)
    /\ \/ Call("simplex_constrain", [NoArgs EXCEPT !.k = k], simplex_constrain(This, k))
       \/ Call("simplex_constrain", [NoArgs EXCEPT !.k = k, !.lp = TRUE],
               simplex_constrain_lp(This, k, LogProb))
    /\ UNCHANGED integers_read

OrderedConstrain ==
  \E k \in 0..MaxDim :
    /\ Within(k)
    /\ \/ Call("ordered_constrain", [NoArgs EXCEPT !.k = k], ordered_constrain(This, k))
       \/ Call("ordered_constrain", [NoArgs EXCEPT !.k = k, !.lp = TRUE],
               ordered_constrain_lp(This, k, LogProb))
    /\ UNCHANGED integers_read

PositiveOrderedConstrain ==
  \E k \in 0..MaxDim :
    /\ Within(k)
    /\ \/ Call("positive_ordered_constrain", [NoArgs EXCEPT !.k = k],
               positive_ordered_constrain(This, k))
       \/ Call("positive_ordered_constrain", [NoArgs EXCEPT !.k = k, !.lp = TRUE],
               positive_ordered_constrain_lp(This, k, LogProb))
    /\ UNCHANGED integers_read

CholeskyFactorCovConstrain ==
  \E n \in 0..MaxDim, m \in 0..MaxDim :
    /\ Within(Reads(cholesky_factor_cov_size(n, m)))
    /\ \/ Call("cholesky_factor_cov_constrain", [NoArgs EXCEPT !.n = n, !.m = m],
               cholesky_factor_cov_constrain(This, n, m))
       \/ Call("cholesky_factor_cov_constrain", [NoArgs EXCEPT !.n = n, !.m = m, !.lp = TRUE],
               cholesky_factor_cov_constrain_lp(This, n, m, LogProb))
    /\ UNCHANGED integers_read

CholeskyFactorCorrConstrain ==
  \E K \in 0..MaxDim :
    /\ Within(Reads(cholesky_factor_corr_size(K)))
    /\ \/ Call("cholesky_factor_corr_constrain", [NoArgs EXCEPT !.k = K],
               cholesky_factor_corr_constrain(This, K))
       \/ Call("cholesky_factor_corr_constrain", [NoArgs EXCEPT !.k = K, !.lp = TRUE],
               cholesky_factor_corr_constrain_lp(This, K, LogProb))
    /\ UNCHANGED integers_read

CovMatrixConstrain ==
  \E k \in 0..MaxDim :
    /\ Within(Reads(cov_matrix_size(k)))
    /\ \/ Call("cov_matrix_constrain", [NoArgs EXCEPT !.k = k], cov_matrix_constrain(This, k))
       \/ Call("cov_matrix_constrain", [NoArgs EXCEPT !.k = k, !.lp = TRUE],
               cov_matrix_constrain_lp(This, k, LogProb))
    /\ UNCHANGED integers_read

CorrMatrixConstrain ==
  \E k \in 0..MaxDim :
    /\ Within(Reads(corr_matrix_size(k)))
    /\ \/ Call("corr_matrix_constrain", [NoArgs EXCEPT !.k = k], corr_matrix_constrain(This, k))
       \/ Call("corr_matrix_constrain", [NoArgs EXCEPT !.k = k, !.lp = TRUE],
               corr_matrix_constrain_lp(This, k, LogProb))
    /\ UNCHANGED integers_read

SparseMatrixLb ==
  \E lb \in ScalarBounds, vv \in IndexPairs, nm \in SparseShapes :
    /\ Within(0)
    /\ Call("sparse_matrix_lb",
            [NoArgs EXCEPT !.lb = lb, !.n = nm[1], !.m = nm[2], !.vec_r = vv[1], !.vec_c = vv[2]],
            sparse_matrix_lb(This, lb, vv[1], vv[2], nm[1], nm[2]))
    /\ UNCHANGED integers_read

SparseMatrixUb ==
  \E ub \in ScalarBounds, vv \in IndexPairs, nm \in SparseShapes :
    /\ Within(0)
    /\ Call("sparse_matrix_ub",
            [NoArgs EXCEPT !.ub = ub, !.n = nm[1], !.m = nm[2], !.vec_r = vv[1], !.vec_c = vv[2]],
            sparse_matrix_ub(This, ub, vv[1], vv[2], nm[1], nm[2]))
    /\ UNCHANGED integers_read

\* The index sequences of IndexPairs that list MaxNnz nonzeros.
FullIndexPairs == {vv \in IndexPairs : Len(vv[1]) = MaxNnz}

ScalarPos ==
  /\ Within(0)
  /\ \/ Call("scalar_pos", NoArgs, scalar_pos(This))
     \/ Call("scalar_pos_constrain", NoArgs, scalar_pos_constrain(This))
     \/ Call("scalar_pos_constrain", [NoArgs EXCEPT !.lp = TRUE],
             scalar_pos_constrain_lp(This, LogProb))
  /\ UNCHANGED integers_read

Prob ==
  /\ Within(0)
  /\ \/ Call("prob", NoArgs, prob(This))
     \/ Call("prob_constrain", NoArgs, prob_constrain(This))
     \/ Call("prob_constrain", [NoArgs EXCEPT !.lp = TRUE], prob_constrain_lp(This, LogProb))
  /\ UNCHANGED integers_read

Corr ==
  /\ Within(0)
  /\ \/ Call("corr", NoArgs, corr(This))
     \/ Call("corr_constrain", NoArgs, corr_constrain(This))
     \/ Call("corr_constrain", [NoArgs EXCEPT !.lp = TRUE], corr_constrain_lp(This, LogProb))
  /\ UNCHANGED integers_read

ScalarLb ==
  \E lb \in ScalarBounds :
    /\ Within(0)
    /\ \/ Call("scalar_lb", [NoArgs EXCEPT !.lb = lb], scalar_lb(This, lb))
       \/ Call("scalar_lb_constrain", [NoArgs EXCEPT !.lb = lb], scalar_lb_constrain(This, lb))
       \/ Call("scalar_lb_constrain", [NoArgs EXCEPT !.lb = lb, !.lp = TRUE],
               scalar_lb_constrain_lp(This, lb, LogProb))
    /\ UNCHANGED integers_read

ScalarUb ==
  \E ub \in ScalarBounds :
    /\ Within(0)
    /\ \/ Call("scalar_ub", [NoArgs EXCEPT !.ub = ub], scalar_ub(This, ub))
       \/ Call("scalar_ub_constrain", [NoArgs EXCEPT !.ub = ub], scalar_ub_constrain(This, ub))
       \/ Call("scalar_ub_constrain", [NoArgs EXCEPT !.ub = ub, !.lp = TRUE],
               scalar_ub_constrain_lp(This, ub, LogProb))
    /\ UNCHANGED integers_read

ScalarLub ==
  \E lu \in ScalarIntervals :
    /\ Within(0)
    /\ \/ Call("scalar_lub", [NoArgs EXCEPT !.lb = lu[1], !.ub = lu[2]],
               scalar_lub(This, lu[1], lu[2]))
       \/ Call("scalar_lub_constrain", [NoArgs EXCEPT !.lb = lu[1], !.ub = lu[2]],
               scalar_lub_constrain(This, lu[1], lu[2]))
       \/ Call("scalar_lub_constrain", [NoArgs EXCEPT !.lb = lu[1], !.ub = lu[2], !.lp = TRUE],
               scalar_lub_constrain_lp(This, lu[1], lu[2], LogProb))
    /\ UNCHANGED integers_read

ScalarOffsetMultiplier ==
  \E om \in OffsetMultipliers :
    /\ Within(0)
    /\ \/ Call("scalar_offset_multiplier", [NoArgs EXCEPT !.offset = om[1], !.multiplier = om[2]],
               scalar_offset_multiplier(This, om[1], om[2]))
       \/ Call("scalar_offset_multiplier_constrain", [NoArgs EXCEPT !.offset = om[1],
                 !.multiplier = om[2]],
               scalar_offset_multiplier_constrain(This, om[1], om[2]))
       \/ Call("scalar_offset_multiplier_constrain", [NoArgs EXCEPT !.offset = om[1],
                 !.multiplier = om[2], !.lp = TRUE],
               scalar_offset_multiplier_constrain_lp(This, om[1], om[2], LogProb))
    /\ UNCHANGED integers_read

VectorLb ==
  \E lb \in DenseLowerBounds, m \in DenseSizes :
    /\ Within(0)
    /\ \/ Call("vector_lb", [NoArgs EXCEPT !.lb = lb, !.m = m], vector_lb(This, lb, m))
       \/ Call("vector_lb_constrain", [NoArgs EXCEPT !.lb = lb, !.m = m],
               vector_lb_constrain(This, lb, m))
       \/ Call("vector_lb_constrain", [NoArgs EXCEPT !.lb = lb, !.m = m, !.lp = TRUE],
               vector_lb_constrain_lp(This, lb, m, LogProb))
    /\ UNCHANGED integers_read

RowVectorLb ==
  \E lb \in DenseLowerBounds, m \in DenseSizes :
    /\ Within(0)
    /\ \/ Call("row_vector_lb", [NoArgs EXCEPT !.lb = lb, !.m = m], row_vector_lb(This, lb, m))
       \/ Call("row_vector_lb_constrain", [NoArgs EXCEPT !.lb = lb, !.m = m],
               row_vector_lb_constrain(This, lb, m))
       \/ Call("row_vector_lb_constrain", [NoArgs EXCEPT !.lb = lb, !.m = m, !.lp = TRUE],
               row_vector_lb_constrain_lp(This, lb, m, LogProb))
    /\ UNCHANGED integers_read

MatrixLb ==
  \E lb \in DenseLowerBounds, nm \in DenseShapes :
    /\ Within(0)
    /\ \/ Call("matrix_lb", [NoArgs EXCEPT !.lb = lb, !.n = nm[1], !.m = nm[2]],
               matrix_lb(This, lb, nm[1], nm[2]))
       \/ Call("matrix_lb_constrain", [NoArgs EXCEPT !.lb = lb, !.n = nm[1], !.m = nm[2]],
               matrix_lb_constrain(This, lb, nm[1], nm[2]))
       \/ Call("matrix_lb_constrain", [NoArgs EXCEPT !.lb = lb, !.n = nm[1], !.m = nm[2],
                 !.lp = TRUE],
               matrix_lb_constrain_lp(This, lb, nm[1], nm[2], LogProb))
    /\ UNCHANGED integers_read

VectorUb ==
  \E ub \in DenseUpperBounds, m \in DenseSizes :
    /\ Within(0)
    /\ \/ Call("vector_ub", [NoArgs EXCEPT !.ub = ub, !.m = m], vector_ub(This, ub, m))
       \/ Call("vector_ub_constrain", [NoArgs EXCEPT !.ub = ub, !.m = m],
               vector_ub_constrain(This, ub, m))
       \/ Call("vector_ub_constrain", [NoArgs EXCEPT !.ub = ub, !.m = m, !.lp = TRUE],
               vector_ub_constrain_lp(This, ub, m, LogProb))
    /\ UNCHANGED integers_read

RowVectorUb ==
  \E ub \in DenseUpperBounds, m \in DenseSizes :
    /\ Within(0)
    /\ \/ Call("row_vector_ub", [NoArgs EXCEPT !.ub = ub, !.m = m], row_vector_ub(This, ub, m))
       \/ Call("row_vector_ub_constrain", [NoArgs EXCEPT !.ub = ub, !.m = m],
               row_vector_ub_constrain(This, ub, m))
       \/ Call("row_vector_ub_constrain", [NoArgs EXCEPT !.ub = ub, !.m = m, !.lp = TRUE],
               row_vector_ub_constrain_lp(This, ub, m, LogProb))
    /\ UNCHANGED integers_read

MatrixUb ==
  \E ub \in DenseUpperBounds, nm \in DenseShapes :
    /\ Within(0)
    /\ \/ Call("matrix_ub", [NoArgs EXCEPT !.ub = ub, !.n = nm[1], !.m = nm[2]],
               matrix_ub(This, ub, nm[1], nm[2]))
       \/ Call("matrix_ub_constrain", [NoArgs EXCEPT !.ub = ub, !.n = nm[1], !.m = nm[2]],
               matrix_ub_constrain(This, ub, nm[1], nm[2]))
       \/ Call("matrix_ub_constrain", [NoArgs EXCEPT !.ub = ub, !.n = nm[1], !.m = nm[2],
                 !.lp = TRUE],
               matrix_ub_constrain_lp(This, ub, nm[1], nm[2], LogProb))
    /\ UNCHANGED integers_read

VectorLub ==
  \E lu \in DenseIntervals, m \in DenseSizes :
    /\ Within(0)
    /\ \/ Call("vector_lub", [NoArgs EXCEPT !.lb = lu[1], !.ub = lu[2], !.m = m],
               vector_lub(This, lu[1], lu[2], m))
       \/ Call("vector_lub_constrain", [NoArgs EXCEPT !.lb = lu[1], !.ub = lu[2], !.m = m],
               vector_lub_constrain(This, lu[1], lu[2], m))
       \/ Call("vector_lub_constrain", [NoArgs EXCEPT !.lb = lu[1], !.ub = lu[2], !.m = m,
                 !.lp = TRUE],
               vector_lub_constrain_lp(This, lu[1], lu[2], m, LogProb))
    /\ UNCHANGED integers_read

RowVectorLub ==
  \E lu \in DenseIntervals, m \in DenseSizes :
    /\ Within(0)
    /\ \/ Call("row_vector_lub", [NoArgs EXCEPT !.lb = lu[1], !.ub = lu[2], !.m = m],
               row_vector_lub(This, lu[1], lu[2], m))
       \/ Call("row_vector_lub_constrain", [NoArgs EXCEPT !.lb = lu[1], !.ub = lu[2], !.m = m],
               row_vector_lub_constrain(This, lu[1], lu[2], m))
       \/ Call("row_vector_lub_constrain", [NoArgs EXCEPT !.lb = lu[1], !.ub = lu[2], !.m = m,
                 !.lp = TRUE],
               row_vector_lub_constrain_lp(This, lu[1], lu[2], m, LogProb))
    /\ UNCHANGED integers_read

MatrixLub ==
  \E lu \in DenseIntervals, nm \in DenseShapes :
    /\ Within(0)
    /\ \/ Call("matrix_lub", [NoArgs EXCEPT !.lb = lu[1], !.ub = lu[2], !.n = nm[1], !.m = nm[2]],
               matrix_lub(This, lu[1], lu[2], nm[1], nm[2]))
       \/ Call("matrix_lub_constrain", [NoArgs EXCEPT !.lb = lu[1], !.ub = lu[2], !.n = nm[1],
                 !.m = nm[2]],
               matrix_lub_constrain(This, lu[1], lu[2], nm[1], nm[2]))
       \/ Call("matrix_lub_constrain", [NoArgs EXCEPT !.lb = lu[1], !.ub = lu[2], !.n = nm[1],
                 !.m = nm[2], !.lp = TRUE],
               matrix_lub_constrain_lp(This, lu[1], lu[2], nm[1], nm[2], LogProb))
    /\ UNCHANGED integers_read

VectorOffsetMultiplier ==
  \E om \in OffsetMultipliers, m \in DenseSizes :
    /\ Within(0)
    /\ \/ Call("vector_offset_multiplier", [NoArgs EXCEPT !.offset = om[1], !.multiplier = om[2],
                 !.m = m],
               vector_offset_multiplier(This, om[1], om[2], m))
       \/ Call("vector_offset_multiplier_constrain", [NoArgs EXCEPT !.offset = om[1],
                 !.multiplier = om[2], !.m = m],
               vector_offset_multiplier_constrain(This, om[1], om[2], m))
       \/ Call("vector_offset_multiplier_constrain", [NoArgs EXCEPT !.offset = om[1],
                 !.multiplier = om[2], !.m = m, !.lp = TRUE],
               vector_offset_multiplier_constrain_lp(This, om[1], om[2], m, LogProb))
    /\ UNCHANGED integers_read

RowVectorOffsetMultiplier ==
  \E om \in OffsetMultipliers, m \in DenseSizes :
    /\ Within(0)
    /\ \/ Call("row_vector_offset_multiplier", [NoArgs EXCEPT !.offset = om[1],
                 !.multiplier = om[2], !.m = m],
               row_vector_offset_multiplier(This, om[1], om[2], m))
       \/ Call("row_vector_offset_multiplier_constrain", [NoArgs EXCEPT !.offset = om[1],
                 !.multiplier = om[2], !.m = m],
               row_vector_offset_multiplier_constrain(This, om[1], om[2], m))
       \/ Call("row_vector_offset_multiplier_constrain", [NoArgs EXCEPT !.offset = om[1],
                 !.multiplier = om[2], !.m = m, !.lp = TRUE],
               row_vector_offset_multiplier_constrain_lp(This, om[1], om[2], m, LogProb))
    /\ UNCHANGED integers_read

MatrixOffsetMultiplier ==
  \E om \in OffsetMultipliers, nm \in DenseShapes :
    /\ Within(0)
    /\ \/ Call("matrix_offset_multiplier", [NoArgs EXCEPT !.offset = om[1], !.multiplier = om[2],
                 !.n = nm[1], !.m = nm[2]],
               matrix_offset_multiplier(This, om[1], om[2], nm[1], nm[2]))
       \/ Call("matrix_offset_multiplier_constrain", [NoArgs EXCEPT !.offset = om[1],
                 !.multiplier = om[2], !.n = nm[1], !.m = nm[2]],
               matrix_offset_multiplier_constrain(This, om[1], om[2], nm[1], nm[2]))
       \/ Call("matrix_offset_multiplier_constrain", [NoArgs EXCEPT !.offset = om[1],
                 !.multiplier = om[2], !.n = nm[1], !.m = nm[2], !.lp = TRUE],
               matrix_offset_multiplier_constrain_lp(This, om[1], om[2], nm[1], nm[2], LogProb))
    /\ UNCHANGED integers_read

SparseMatrixLbConstrain ==
  \E lb \in DenseLowerBounds, vv \in FullIndexPairs, nm \in SparseShapes :
    /\ Within(0)
    /\ \/ Call("sparse_matrix_lb_constrain", [NoArgs EXCEPT !.lb = lb, !.n = nm[1], !.m = nm[2],
                 !.vec_r = vv[1], !.vec_c = vv[2]],
               sparse_matrix_lb_constrain(This, lb, vv[1], vv[2], nm[1], nm[2]))
       \/ Call("sparse_matrix_lb_constrain", [NoArgs EXCEPT !.lb = lb, !.n = nm[1], !.m = nm[2],
                 !.vec_r = vv[1], !.vec_c = vv[2], !.lp = TRUE],
               sparse_matrix_lb_constrain_lp(This, lb, vv[1], vv[2], nm[1], nm[2], LogProb))
    /\ UNCHANGED integers_read

SparseMatrixUbConstrain ==
  \E ub \in DenseUpperBounds, vv \in FullIndexPairs, nm \in SparseShapes :
    /\ Within(0)
    /\ \/ Call("sparse_matrix_ub_constrain", [NoArgs EXCEPT !.ub = ub, !.n = nm[1], !.m = nm[2],
                 !.vec_r = vv[1], !.vec_c = vv[2]],
               sparse_matrix_ub_constrain(This, ub, vv[1], vv[2], nm[1], nm[2]))
       \/ Call("sparse_matrix_ub_constrain", [NoArgs EXCEPT !.ub = ub, !.n = nm[1], !.m = nm[2],
                 !.vec_r = vv[1], !.vec_c = vv[2], !.lp = TRUE],
               sparse_matrix_ub_constrain_lp(This, ub, vv[1], vv[2], nm[1], nm[2], LogProb))
    /\ UNCHANGED integers_read

SparseMatrixLub ==
  \E lu \in DenseIntervals, vv \in FullIndexPairs, nm \in SparseShapes :
    /\ Within(0)
    /\ \/ Call("sparse_matrix_lub", [NoArgs EXCEPT !.lb = lu[1], !.ub = lu[2], !.n = nm[1],
                 !.m = nm[2], !.vec_r = vv[1], !.vec_c = vv[2]],
               sparse_matrix_lub(This, lu[1], lu[2], vv[1], vv[2], nm[1], nm[2]))
       \/ Call("sparse_matrix_lub_constrain", [NoArgs EXCEPT !.lb = lu[1], !.ub = lu[2],
                 !.n = nm[1], !.m = nm[2], !.vec_r = vv[1], !.vec_c = vv[2]],
               sparse_matrix_lub_constrain(This, lu[1], lu[2], vv[1], vv[2], nm[1], nm[2]))
       \/ Call("sparse_matrix_lub_constrain", [NoArgs EXCEPT !.lb = lu[1], !.ub = lu[2],
                 !.n = nm[1], !.m = nm[2], !.vec_r = vv[1], !.vec_c = vv[2], !.lp = TRUE],
               sparse_matrix_lub_constrain_lp(This, lu[1], lu[2], vv[1], vv[2], nm[1], nm[2],
                 LogProb))
    /\ UNCHANGED integers_read

SparseMatrixOffsetMultiplier ==
  \E om \in OffsetMultipliers, vv \in FullIndexPairs, nm \in SparseShapes :
    /\ Within(0)
    /\ \/ Call("sparse_matrix_offset_multiplier", [NoArgs EXCEPT !.offset = om[1],
                 !.multiplier = om[2], !.n = nm[1], !.m = nm[2], !.vec_r = vv[1], !.vec_c = vv[2]],
               sparse_matrix_offset_multiplier(This, om[1], om[2], vv[1], vv[2], nm[1], nm[2]))
       \/ Call("sparse_matrix_offset_multiplier_constrain", [NoArgs EXCEPT !.offset = om[1],
                 !.multiplier = om[2], !.n = nm[1], !.m = nm[2], !.vec_r = vv[1], !.vec_c = vv[2]],
               sparse_matrix_offset_multiplier_constrain(This, om[1], om[2], vv[1], vv[2], nm[1],
                 nm[2]))
       \/ Call("sparse_matrix_offset_multiplier_constrain", [NoArgs EXCEPT !.offset = om[1],
                 !.multiplier = om[2], !.n = nm[1], !.m = nm[2], !.vec_r = vv[1],
                 !.vec_c = vv[2], !.lp = TRUE],
               sparse_matrix_offset_multiplier_constrain_lp(This, om[1], om[2], vv[1], vv[2],
                 nm[1], nm[2], LogProb))
    /\ UNCHANGED integers_read

\* The history of successful integer() calls after a bounded integer accessor.
IntegerConsumed ==
  integers_read' = IF int_pos' = int_pos + 1
                   THEN Append(integers_read, data_i[int_pos'])
                   ELSE integers_read

IntegerLb ==
  \E lb \in IntBounds :
    /\ Within(0)
    /\ \/ Call("integer_lb", [NoArgs EXCEPT !.lb = lb], integer_lb(This, lb))
       \/ Call("integer_lb_constrain", [NoArgs EXCEPT !.lb = lb],
               integer_lb_constrain(This, lb))
       \/ Call("integer_lb_constrain", [NoArgs EXCEPT !.lb = lb, !.lp = TRUE],
               integer_lb_constrain_lp(This, lb, LogProb))
    /\ IntegerConsumed

IntegerUb ==
  \E ub \in IntBounds :
    /\ Within(0)
    /\ \/ Call("integer_ub", [NoArgs EXCEPT !.ub = ub], integer_ub(This, ub))
       \/ Call("integer_ub_constrain", [NoArgs EXCEPT !.ub = ub],
               integer_ub_constrain(This, ub))
       \/ Call("integer_ub_constrain", [NoArgs EXCEPT !.ub = ub, !.lp = TRUE],
               integer_ub_constrain_lp(This, ub, LogProb))
    /\ IntegerConsumed

IntegerLub ==
  \E lb \in IntBounds, ub \in IntBounds :
    /\ Within(0)
    /\ \/ Call("integer_lub", [NoArgs EXCEPT !.lb = lb, !.ub = ub], integer_lub(This, lb, ub))
       \/ Call("integer_lub_constrain", [NoArgs EXCEPT !.lb = lb, !.ub = ub],
               integer_lub_constrain(This, lb, ub))
       \/ Call("integer_lub_constrain", [NoArgs EXCEPT !.lb = lb, !.ub = ub, !.lp = TRUE],
               integer_lub_constrain_lp(This, lb, ub, LogProb))
    /\ IntegerConsumed

Next ==
  \/ ReturnToCaller
  \/ Available
  \/ AvailableI
  \/ Integer
  \/ IntegerLb
  \/ IntegerUb
  \/ IntegerLub
  \/ Scalar
  \/ StdVector
  \/ Vector
  \/ RowVector
  \/ Matrix
  \/ SparseMatrix
  \/ IntegerConstrain
  \/ ScalarConstrain
  \/ VectorConstrain
  \/ RowVectorConstrain
  \/ MatrixConstrain
  \/ SparseMatrixConstrain
  \/ SparseMatrixLb
  \/ SparseMatrixUb
  \/ UnitVector
  \/ Simplex
  \/ Ordered
  \/ PositiveOrdered
  \/ CholeskyFactorCov
  \/ CholeskyFactorCorr
  \/ CovMatrix
  \/ CorrMatrix
  \/ UnitVectorConstrain
  \/ SimplexConstrain
  \/ OrderedConstrain
  \/ PositiveOrderedConstrain
  \/ CholeskyFactorCovConstrain
  \/ CholeskyFactorCorrConstrain
  \/ CovMatrixConstrain
  \/ CorrMatrixConstrain
  \/ ScalarPos
  \/ Prob
  \/ Corr
  \/ ScalarLb
  \/ ScalarUb
  \/ ScalarLub
  \/ ScalarOffsetMultiplier
  \/ VectorLb
  \/ RowVectorLb
  \/ MatrixLb
  \/ VectorUb
  \/ RowVectorUb
  \/ MatrixUb
  \/ VectorLub
  \/ RowVectorLub
  \/ MatrixLub
  \/ VectorOffsetMultiplier
  \/ RowVectorOffsetMultiplier
  \/ MatrixOffsetMultiplier
  \/ SparseMatrixLbConstrain
  \/ SparseMatrixUbConstrain
  \/ SparseMatrixLub
  \/ SparseMatrixOffsetMultiplier

Spec == Init /\ [][Next]_vars

(***************************************************************************)
(* Vocabulary of the properties.                                           *)
(***************************************************************************)
\* The reader as it was when the last call was made.
This0 == [data_r_ |-> data_r, data_i_ |-> data_i, pos_ |-> pos0, int_pos_ |-> int_pos0]

\* Scalars that were unread when the last call was made.
Available0 == Len(data_r) - pos0

\* Scalars the last call asked for.
Requested ==
  CASE op = "scalar" -> 1
    [] op \in {"std_vector", "vector", "row_vector"} -> args.m
    [] op = "matrix" -> args.n * args.m
    [] op = "sparse_matrix" -> IF args.n = 0 \/ args.m = 0 THEN 0 ELSE Len(args.vec_r)
    [] OTHER -> 0

BulkOps == {"std_vector", "vector", "row_vector", "matrix"}

\* The rows of a dense matrix, top to bottom, each left to right.
RowsOf(mat) == [i \in 1..mat.rows |-> [j \in 1..mat.cols |-> mat.coeff[<<i - 1, j - 1>>]]]

\* The coefficients of a dense matrix column by column, each top to bottom.
FlattenColumns(mat) ==
  [k \in 1..(mat.rows * mat.cols) |-> mat.coeff[<<(k - 1) % mat.rows, (k - 1) \div mat.rows>>]]

\* The coefficients of a column or row vector, first to last.
Elements(vec) ==
  [k \in 1..(vec.rows * vec.cols) |->
     IF vec.cols = 1 THEN vec.coeff[<<k - 1, 0>>] ELSE vec.coeff[<<0, k - 1>>]]

\* C1: no operation, successful or failing, moves pos or int_pos backward.
C1_CursorsNeverMoveBackward == [][pos' >= pos /\ int_pos' >= int_pos]_vars

\* C2: integer() (resp. scalar()) returns the element at its cursor and advances that
\* cursor by one when an element remains; at the end it throws "no more ... to read",
\* returns nothing and leaves both cursors where they were.
C2_SingleReadOrExhausted ==
  /\ op = "integer" =>
       IF int_pos0 < Len(data_i)
       THEN err = NoError /\ ret = <<data_i[int_pos0 + 1]>> /\ int_pos = int_pos0 + 1
       ELSE err = NoMoreIntegers /\ ret = <<>> /\ pos = pos0 /\ int_pos = int_pos0
  /\ op = "scalar" =>
       IF pos0 < Len(data_r)
       THEN err = NoError /\ ret = <<data_r[pos0 + 1]>> /\ pos = pos0 + 1
       ELSE err = NoMoreScalars /\ ret = <<>> /\ pos = pos0 /\ int_pos = int_pos0

\* C2 witness: scalar() fails at the end of a sequence it has read from, after
\* integer() has read too.
C2_Witness == op = "scalar" /\ err = NoMoreScalars /\ pos > 0 /\ int_pos > 0

\* C3: the k-th successful integer() call returns data_i[k-1] (so the values returned
\* so far are a prefix of data_i, none returned twice), and an integer() call made
\* after Len(data_i) successful reads throws "no more integers to read.".
C3_IntegersInOrder ==
  /\ Len(integers_read) <= Len(data_i)
  /\ \A k \in 1..Len(integers_read) : integers_read[k] = data_i[k]
  /\ op = "integer" =>
       \/ err = NoError /\ ret = <<data_i[Len(integers_read)]>>
       \/ err = NoMoreIntegers /\ Len(integers_read) = Len(data_i)

\* C3 witness: over the integers [3, 5], the reads returned 3 then 5 and the third
\* read failed.
C3_Witness ==
  /\ data_i = ScenarioA
  /\ integers_read = <<3, 5>>
  /\ op = "integer"
  /\ err = NoMoreIntegers
  /\ int_pos = 2

\* C4: a bulk accessor (std_vector, vector, row_vector, matrix) asked for more scalars
\* than remain throws "no more scalars to read" and leaves the cursor unchanged.
C4_BulkReadChecksBeforeAdvancing ==
  (op \in BulkOps /\ Requested > Available0) => (err \in BufferExhausted /\ pos = pos0)

\* C5: matrix(n, m) moves pos by n*m (not at all when n = 0 or m = 0) and returns the
\* n x m matrix whose element (i, j) is data_r[pos0 + j*n + i].
C5_MatrixColumnMajor ==
  (op = "matrix" /\ err = NoError) =>
     /\ pos = pos0 + args.n * args.m
     /\ (args.n = 0 \/ args.m = 0) => pos = pos0
     /\ ret[1].rows = args.n
     /\ ret[1].cols = args.m
     /\ \A i \in 0..(args.n - 1), j \in 0..(args.m - 1) :
          pos0 + j * args.n + i < Len(data_r) =>
            ret[1].coeff[<<i, j>>] = data_r[pos0 + j * args.n + i + 1]

\* C5 witness: a 2 x 2 matrix read from the middle of the scalars 1..6.
C5_Witness ==
  /\ op = "matrix"
  /\ err = NoError
  /\ args.n = 2
  /\ args.m = 2
  /\ data_r = ScenarioB
  /\ pos0 = 1
  /\ pos = 5

C7_StdVector ==
  (op = "std_vector" /\ Available0 >= args.m) =>
     /\ err = NoError
     /\ Len(ret[1]) = args.m
     /\ \A i \in 0..(args.m - 1) : ret[1][i + 1] = data_r[pos0 + i + 1]
     /\ pos = pos0 + args.m
     /\ args.m = 0 => (ret[1] = <<>> /\ pos = pos0)

\* C7 witness: two scalars copied from the middle of the sequence.
C7_Witness ==
  /\ op = "std_vector"
  /\ args.m = 2
  /\ pos0 > 0
  /\ pos = pos0 + 2
  /\ pos <= Len(data_r)

\* C8: vector(m) and row_vector(m) with at least m scalars remaining return m
\* elements, element i being data_r[pos0 + i], and move pos by m (not at all for
\* m = 0): the elements, the exception and the cursor are those of std_vector(m)
\* called on the same reader.
C8_VectorLikeStdVector ==
  (op \in {"vector", "row_vector"} /\ Available0 >= args.m) =>
     /\ err = NoError
     /\ ret[1].rows * ret[1].cols = args.m
     /\ ret[1].rows = (IF op = "vector" THEN args.m ELSE 1)
     /\ ret[1].cols = (IF op = "vector" THEN 1 ELSE args.m)
     /\ \A i \in 0..(args.m - 1) : Elements(ret[1])[i + 1] = data_r[pos0 + i + 1]
     /\ pos = pos0 + args.m
     /\ args.m = 0 => pos = pos0
     /\ \E o \in std_vector(This0, args.m) :
          o.err = err /\ o.ret[1] = Elements(ret[1]) /\ o.pos_ = pos

\* C8 witness: a row vector of two scalars read from the middle of the sequence.
C8_Witness ==
  /\ op = "row_vector"
  /\ args.m = 2
  /\ err = NoError
  /\ pos0 > 0
  /\ pos = pos0 + 2
  /\ pos <= Len(data_r)
  /\ ret[1].coeff[<<0, 0>>] # ret[1].coeff[<<0, 1>>]

\* C9: with at least n*m scalars remaining, the result of matrix(n, m) flattened
\* column by column is the sequence std_vector(n*m) returns from the same cursor
\* position of the same data, and both end at the same cursor position.
C9_ColumnMajorRoundTrip ==
  (op = "matrix" /\ Available0 >= args.n * args.m) =>
     /\ err = NoError
     /\ \A o \in std_vector(This0, args.n * args.m) :
          o.err = NoError /\ o.ret[1] = FlattenColumns(ret[1]) /\ o.pos_ = pos

\* C9 witness: a 3 x 2 matrix assembled from the scalars 1..6.
C9_Witness ==
  /\ op = "matrix"
  /\ args.n = 3
  /\ args.m = 2
  /\ data_r = ScenarioB
  /\ pos0 = 0
  /\ err = NoError

\* The triplets the loop of sparse_matrix appended: the last len(vec_r) of the list.
AppendedTriplets(sp) ==
  [i \in 1..Len(args.vec_r) |-> sp.triplets[Len(sp.triplets) - Len(args.vec_r) + i]]

\* C10 as stated: for all n, m and all equal-length index sequences, sparse_matrix
\* moves pos by len(vec_r), the i-th scalar consumed being paired with
\* (vec_r[i], vec_c[i]).
C10_AsStated ==
  (op = "sparse_matrix" /\ err = NoError /\ Len(args.vec_r) = Len(args.vec_c)
     /\ Available0 >= Len(args.vec_r)) =>
     /\ pos = pos0 + Len(args.vec_r)
     /\ Len(ret[1].triplets) >= Len(args.vec_r)
     /\ \A i \in 1..Len(args.vec_r) :
          AppendedTriplets(ret[1])[i] = triplet_type(args.vec_r[i], args.vec_c[i], data_r[pos0 + i])

\* C10 as amended: for n > 0 and m > 0, equal-length index sequences and at least
\* len(vec_r) scalars remaining, sparse_matrix moves pos by len(vec_r), the i-th
\* scalar consumed being paired with (vec_r[i], vec_c[i]) in the order listed; when
\* n = 0 or m = 0 it returns the empty matrix and consumes nothing.
C10_SparseMatrixConsumption ==
  (op = "sparse_matrix" /\ Len(args.vec_r) = Len(args.vec_c)) =>
     /\ (args.n > 0 /\ args.m > 0 /\ Available0 >= Len(args.vec_r)) =>
          /\ err = NoError
          /\ pos = pos0 + Len(args.vec_r)
          /\ Len(ret[1].triplets) >= Len(args.vec_r)
          /\ \A i \in 1..Len(args.vec_r) :
               AppendedTriplets(ret[1])[i]
                 = triplet_type(args.vec_r[i], args.vec_c[i], data_r[pos0 + i])
     /\ (args.n = 0 \/ args.m = 0) =>
          /\ err = NoError
          /\ pos = pos0
          /\ ret[1].triplets = <<>>

\* C10 witness: two nonzeros, listed with decreasing row index, read from the middle
\* of the scalars.
C10_Witness ==
  /\ op = "sparse_matrix"
  /\ err = NoError
  /\ args.n > 0
  /\ args.m > 0
  /\ args.vec_r = <<1, 0>>
  /\ pos0 > 0
  /\ pos = pos0 + 2
  /\ pos <= Len(data_r)
  /\ data_r[pos0 + 1] # data_r[pos0 + 2]

IntegerLbOps == {"integer_lb", "integer_lb_constrain"}
IntegerUbOps == {"integer_ub", "integer_ub_constrain"}
IntegerLubOps == {"integer_lub", "integer_lub_constrain"}
IntegerBoundOps == IntegerLbOps \cup IntegerUbOps \cup IntegerLubOps

\* The integer at the cursor when the last call was made.
NextInteger0 == data_i[int_pos0 + 1]

\* C18: integer_lb, integer_ub and integer_lub (and their constrain forms, with or
\* without an accumulator) called with an integer remaining move int_pos by exactly
\* one, whether the check passes or fails, and leave pos alone; with consistent
\* bounds a value below lb throws the lower-bound range error, a value above ub the
\* upper-bound range error, and a value within the bounds is returned as read, never
\* replaced by a bound.
C18_IntegerConsumedThenChecked ==
  (op \in IntegerBoundOps /\ int_pos0 < Len(data_i)) =>
     /\ int_pos = int_pos0 + 1
     /\ pos = pos0
     /\ log_prob.added = <<>>
     /\ op \in IntegerLbOps =>
          IF NextInteger0 >= args.lb
          THEN err = NoError /\ ret = <<NextInteger0>>
          ELSE err = BelowLowerBound /\ ret = <<>>
     /\ op \in IntegerUbOps =>
          IF NextInteger0 <= args.ub
          THEN err = NoError /\ ret = <<NextInteger0>>
          ELSE err = AboveUpperBound /\ ret = <<>>
     /\ (op \in IntegerLubOps /\ args.lb <= args.ub) =>
          IF NextInteger0 < args.lb THEN err = BelowLowerBound /\ ret = <<>>
          ELSE IF NextInteger0 > args.ub THEN err = AboveUpperBound /\ ret = <<>>
          ELSE err = NoError /\ ret = <<NextInteger0>>

\* C18 witness: with lb = 2 and ub = 5 the next integer was 7: it is consumed and
\* the call fails with the upper-bound range error.
C18_Witness ==
  /\ op = "integer_lub"
  /\ args.lb = 2
  /\ args.ub = 5
  /\ int_pos0 < Len(data_i)
  /\ NextInteger0 = 7
  /\ err = AboveUpperBound
  /\ int_pos = int_pos0 + 1

\* C19: integer_lub(lb, ub) (and its constrain forms) called with lb > ub and an
\* integer remaining consumes the integer and throws the bound-consistency error,
\* which is neither of the two range errors, whatever the integer's value.
C19_InconsistentBoundsAfterConsumption ==
  (op \in IntegerLubOps /\ args.lb > args.ub /\ int_pos0 < Len(data_i)) =>
     /\ int_pos = int_pos0 + 1
     /\ err = BoundsInconsistent
     /\ ret = <<>>
     /\ err \notin {BelowLowerBound, AboveUpperBound, NoMoreIntegers}

\* C19 witness: lb = 5 > ub = 2, and the integer consumed, 3, is below lb and above
\* ub at once.
C19_Witness ==
  /\ op = "integer_lub"
  /\ args.lb = 5
  /\ args.ub = 2
  /\ int_pos0 < Len(data_i)
  /\ NextInteger0 = 3
  /\ int_pos = int_pos0 + 1
  /\ err = BoundsInconsistent

SparseOps == {"sparse_matrix", "sparse_matrix_lb", "sparse_matrix_ub"}

\* C11: a successful sparse_matrix, sparse_matrix_lb or sparse_matrix_ub call on a
\* matrix with rows and columns assembles its result from exactly len(vec_r)
\* triplets, the i-th being (vec_r[i], vec_c[i], i-th scalar read), and no other
\* entry.
C11_TripletListExact ==
  (op \in SparseOps /\ err = NoError /\ args.n > 0 /\ args.m > 0
     /\ Available0 >= Len(args.vec_r)) =>
     /\ Len(ret[1].triplets) = Len(args.vec_r)
     /\ \A i \in 1..Len(args.vec_r) :
          ret[1].triplets[i] = triplet_type(args.vec_r[i], args.vec_c[i], data_r[pos0 + i])

VectorConstrainOps ==
  {"unit_vector_constrain", "simplex_constrain", "ordered_constrain",
   "positive_ordered_constrain"}

MatrixConstrainOps ==
  {"cholesky_factor_cov_constrain", "cholesky_factor_corr_constrain", "cov_matrix_constrain",
   "corr_matrix_constrain"}

ConstrainOps == VectorConstrainOps \cup MatrixConstrainOps

\* The outcomes of the constrain call `name` with arguments a on the reader `this`.
ConstrainOutcomes(this, name, a) ==
  CASE name = "unit_vector_constrain" ->
         IF a.lp THEN unit_vector_constrain_lp(this, a.k, LogProb)
         ELSE unit_vector_constrain(this, a.k)
    [] name = "simplex_constrain" ->
         IF a.lp THEN simplex_constrain_lp(this, a.k, LogProb)
         ELSE simplex_constrain(this, a.k)
    [] name = "ordered_constrain" ->
         IF a.lp THEN ordered_constrain_lp(this, a.k, LogProb)
         ELSE ordered_constrain(this, a.k)
    [] name = "positive_ordered_constrain" ->
         IF a.lp THEN positive_ordered_constrain_lp(this, a.k, LogProb)
         ELSE positive_ordered_constrain(this, a.k)
    [] name = "cholesky_factor_cov_constrain" ->
         IF a.lp THEN cholesky_factor_cov_constrain_lp(this, a.n, a.m, LogProb)
         ELSE cholesky_factor_cov_constrain(this, a.n, a.m)
    [] name = "cholesky_factor_corr_constrain" ->
         IF a.lp THEN cholesky_factor_corr_constrain_lp(this, a.k, LogProb)
         ELSE cholesky_factor_corr_constrain(this, a.k)
    [] name = "cov_matrix_constrain" ->
         IF a.lp THEN cov_matrix_constrain_lp(this, a.k, LogProb)
         ELSE cov_matrix_constrain(this, a.k)
    [] name = "corr_matrix_constrain" ->
         IF a.lp THEN corr_matrix_constrain_lp(this, a.k, LogProb)
         ELSE corr_matrix_constrain(this, a.k)

\* The unconstrained length of each constrained type, as a number of scalars.
UnconstrainedSize ==
  CASE op \in {"unit_vector_constrain", "ordered_constrain", "positive_ordered_constrain"} ->
         args.k
    [] op = "simplex_constrain" -> args.k - 1
    [] op = "cholesky_factor_cov_constrain" ->
         (args.m * (args.m + 1)) \div 2 + (args.n - args.m) * args.m
    [] op \in {"cholesky_factor_corr_constrain", "corr_matrix_constrain"} ->
         (args.k * (args.k - 1)) \div 2
    [] op = "cov_matrix_constrain" -> args.k + (args.k * (args.k - 1)) \div 2
    [] OTHER -> 0

\* The vector made of the count scalars at the cursor when the last call was made.
VectorRead0(count) == map_vector_t([i \in 1..count |-> data_r[pos0 + i]], count)

\* What the last call did to the accumulator it was given, if it was given one: it
\* added the log Jacobian of the transform it returned, once.
JacobianAdded ==
  IF args.lp
  THEN log_prob = [given |-> TRUE,
                   added |-> <<LogJacobian(ret[1].transform, ret[1].x, ret[1].dims)>>]
  ELSE log_prob = NoAccumulator

\* C12: the cursor positions a constrain call can end at are the same over every
\* scalar sequence of the same length: they depend on the dimensions asked for and on
\* the cursor, never on the values read.
C12_ConsumptionIndependentOfValues ==
  op \in ConstrainOps =>
    /\ pos \in {o.pos_ : o \in ConstrainOutcomes(This0, op, args)}
    /\ \A other \in [1..Len(data_r) -> ScalarVals] :
         {o.pos_ : o \in ConstrainOutcomes([This0 EXCEPT !.data_r_ = other], op, args)}
           = {o.pos_ : o \in ConstrainOutcomes(This0, op, args)}

\* C12 witness: cov_matrix_constrain(2) has read three scalars from the middle of
\* 1..6, a sequence whose values all differ from those of the sequences compared with.
C12_Witness ==
  /\ op = "cov_matrix_constrain"
  /\ args.k = 2
  /\ data_r = ScenarioB
  /\ pos0 = 2
  /\ pos = 5
  /\ err = NoError

\* C13: simplex_constrain(k) with k >= 1 and at least k - 1 scalars remaining, with
\* or without an accumulator, moves pos by k - 1 and hands the simplex transform the
\* k - 1 scalars at the cursor, in order.
C13_SimplexConstrain ==
  (op = "simplex_constrain" /\ args.k >= 1 /\ Available0 >= args.k - 1) =>
     /\ err = NoError
     /\ pos = pos0 + args.k - 1
     /\ ret[1].transform = "simplex_constrain"
     /\ ret[1].x = VectorRead0(args.k - 1)
     /\ JacobianAdded

\* C13 witness: simplex_constrain(3) with an accumulator consumed two scalars.
C13_Witness ==
  /\ op = "simplex_constrain"
  /\ args.k = 3
  /\ args.lp
  /\ err = NoError
  /\ pos0 > 0
  /\ pos = pos0 + 2
  /\ pos <= Len(data_r)

\* C14: a successful cholesky_factor_cov_constrain(n, m), with or without an
\* accumulator, moves pos by m(m+1)/2 + (n-m)*m, and a successful
\* cholesky_factor_cov(n, m) moves pos by n*m.
C14_CholeskyFactorCovConsumption ==
  /\ (op = "cholesky_factor_cov_constrain" /\ err = NoError) =>
       pos = pos0 + UnconstrainedSize
  /\ (op = "cholesky_factor_cov" /\ err = NoError) => pos = pos0 + args.n * args.m

C17_SizeZeroRejectedFirst ==
  (op \in {"unit_vector", "unit_vector_constrain", "simplex", "simplex_constrain"}
     /\ args.k = 0) =>
     /\ err \in InvalidShape
     /\ ret = <<>>
     /\ pos = pos0
     /\ int_pos = int_pos0
     /\ log_prob = (IF args.lp THEN LogProb ELSE NoAccumulator)

\* C17 witness: simplex_constrain(0) with an accumulator, called after scalars and an
\* integer had been read.
C17_Witness ==
  /\ op = "simplex_constrain"
  /\ args.k = 0
  /\ args.lp
  /\ pos0 > 0
  /\ int_pos0 > 0
  /\ err \in InvalidShape

VectorPlainOps == {"unit_vector", "simplex", "ordered", "positive_ordered"}

MatrixPlainOps == {"cholesky_factor_cov", "cholesky_factor_corr", "cov_matrix", "corr_matrix"}

\* The value a plain accessor of a constrained family extracts: the full plain
\* representation, read at the cursor when the last call was made.
Extracted0 ==
  CASE op \in VectorPlainOps -> VectorRead0(args.k)
    [] op = "cholesky_factor_cov" ->
         map_matrix_t([i \in 1..(args.n * args.m) |-> data_r[pos0 + i]], args.n, args.m)
    [] op \in MatrixPlainOps \ {"cholesky_factor_cov"} ->
         map_matrix_t([i \in 1..(args.k * args.k) |-> data_r[pos0 + i]], args.k, args.k)

\* The verdict of the family's predicate on a value.
Verdict(y) ==
  CASE op = "unit_vector" -> check_unit_vector("stan::io::unit_vector", y)
    [] op = "simplex" -> check_simplex("stan::io::simplex", y)
    [] op = "ordered" -> check_ordered("stan::io::ordered", y)
    [] op = "positive_ordered" -> check_positive_ordered("stan::io::positive_ordered", y)
    [] op = "cholesky_factor_cov" -> check_cholesky_factor("stan::io::cholesky_factor_cov", y)
    [] op = "cholesky_factor_corr" ->
         check_cholesky_factor_corr("stan::io::cholesky_factor_corr", y)
    [] op = "cov_matrix" -> check_cov_matrix("stan::io::cov_matrix", y)
    [] op = "corr_matrix" -> check_corr_matrix("stan::math::corr_matrix", y)

PlainSize ==
  CASE op \in VectorPlainOps -> args.k
    [] op = "cholesky_factor_cov" -> args.n * args.m
    [] OTHER -> args.k * args.k

\* C20: a plain accessor of a constrained family with its full plain size remaining
\* (simplex(k), unit_vector(k) with k >= 1, ordered(k), positive_ordered(k): k;
\* cholesky_factor_cov(n, m): n*m; cholesky_factor_corr(K), cov_matrix(k),
\* corr_matrix(k): k*k) moves pos by that size whether the value is valid or not,
\* returns the value extracted, unchanged, when the predicate accepts it, and throws
\* the predicate's error when it does not.
C20_PlainReadThenValidate ==
  (/\ op \in VectorPlainOps \cup MatrixPlainOps
   /\ op \in {"unit_vector", "simplex"} => args.k >= 1
   /\ Available0 >= PlainSize) =>
     /\ pos = pos0 + PlainSize
     /\ IF Verdict(Extracted0) = NoError
        THEN err = NoError /\ ret = <<Extracted0>>
        ELSE err = Verdict(Extracted0) /\ err \in ValidationError /\ ret = <<>>

\* C20 witness: cov_matrix(2) consumed four scalars, 2, 3, 4, 5, and rejected the
\* matrix they make, which is not symmetric.
C20_Witness ==
  /\ op = "cov_matrix"
  /\ args.k = 2
  /\ data_r = ScenarioB
  /\ pos0 = 1
  /\ pos = 5
  /\ err = "stan::io::cov_matrix"

RangeViolation == {BelowLowerBound, AboveUpperBound}

\* Whether the integer at the cursor satisfied the bounds of the last call.
WithinBounds0 ==
  CASE op \in IntegerLbOps -> NextInteger0 >= args.lb
    [] op \in IntegerUbOps -> NextInteger0 <= args.ub
    [] op \in IntegerLubOps -> args.lb <= NextInteger0 /\ NextInteger0 <= args.ub
    [] OTHER -> FALSE

\* C30: when an integer is available, integer_lb, integer_ub and (with lb <= ub)
\* integer_lub return exactly when the consumed integer satisfies the bounds, the
\* bounds themselves included, and then return that integer; in every other case the
\* call throws one of the two range errors and returns nothing.
C30_ReturnsIffWithinBounds ==
  (/\ op \in IntegerBoundOps
   /\ int_pos0 < Len(data_i)
   /\ op \in IntegerLubOps => args.lb <= args.ub) =>
     /\ (err = NoError) <=> WithinBounds0
     /\ err = NoError => ret = <<NextInteger0>>
     /\ err # NoError => err \in RangeViolation /\ ret = <<>>

\* C30 witness: integer_ub(5) met the integer 5, the bound itself, and returned it.
C30_Witness ==
  /\ op = "integer_ub"
  /\ args.ub = 5
  /\ int_pos0 < Len(data_i)
  /\ NextInteger0 = 5
  /\ err = NoError
  /\ ret = <<5>>

\* C24: available() returns len(data_r) - pos and available_i() returns
\* len(data_i) - int_pos, and neither call moves a cursor.
C24_AvailableIsSizeMinusCursor ==
  /\ op = "available" =>
       ret = <<Len(data_r) - pos0>> /\ pos = pos0 /\ int_pos = int_pos0
  /\ op = "available_i" =>
       ret = <<Len(data_i) - int_pos0>> /\ pos = pos0 /\ int_pos = int_pos0

\* C25: no call, returning or throwing, changes the borrowed scalar sequence or the
\* borrowed integer sequence, in length or in content.
C25_BorrowedSequencesUnchanged == [][data_r' = data_r /\ data_i' = data_i]_vars

\* C25 witness: std_vector(2) has copied the third and fourth of the six scalars 1..6
\* out of the borrowed sequence, which still holds them.
C25_Witness ==
  /\ op = "std_vector"
  /\ args.m = 2
  /\ pos0 = 2
  /\ pos = 4
  /\ ret = <<(<<3, 4>>)>>
  /\ data_r = ScenarioB
  /\ data_i = <<7>>

\* The dense batches of constrained scalars, by the shape they return.
DenseVectorOps ==
  {"vector_lb", "vector_lb_constrain", "vector_ub", "vector_ub_constrain", "vector_lub",
   "vector_lub_constrain", "vector_offset_multiplier", "vector_offset_multiplier_constrain"}
DenseRowVectorOps ==
  {"row_vector_lb", "row_vector_lb_constrain", "row_vector_ub", "row_vector_ub_constrain",
   "row_vector_lub", "row_vector_lub_constrain", "row_vector_offset_multiplier",
   "row_vector_offset_multiplier_constrain"}
DenseMatrixOps ==
  {"matrix_lb", "matrix_lb_constrain", "matrix_ub", "matrix_ub_constrain", "matrix_lub",
   "matrix_lub_constrain", "matrix_offset_multiplier", "matrix_offset_multiplier_constrain"}
DenseOps == DenseVectorOps \cup DenseRowVectorOps \cup DenseMatrixOps

\* The scalar-level accessor the loop of the last call calls.
ScalarLevelOf ==
  CASE op \in {"vector_lb", "row_vector_lb", "matrix_lb"} ->
         "scalar_lb"
    [] op \in {"vector_lb_constrain", "row_vector_lb_constrain", "matrix_lb_constrain"} ->
         "scalar_lb_constrain"
    [] op \in {"vector_ub", "row_vector_ub", "matrix_ub"} ->
         "scalar_ub"
    [] op \in {"vector_ub_constrain", "row_vector_ub_constrain", "matrix_ub_constrain"} ->
         "scalar_ub_constrain"
    [] op \in {"vector_lub", "row_vector_lub", "matrix_lub"} ->
         "scalar_lub"
    [] op \in {"vector_lub_constrain", "row_vector_lub_constrain", "matrix_lub_constrain"} ->
         "scalar_lub_constrain"
    [] op \in {"vector_offset_multiplier", "row_vector_offset_multiplier", "matrix_offset_multiplier"} ->
         "scalar_offset_multiplier"
    [] op \in {"vector_offset_multiplier_constrain", "row_vector_offset_multiplier_constrain", "matrix_offset_multiplier_constrain"} ->
         "scalar_offset_multiplier_constrain"

DenseRows == IF op \in DenseMatrixOps THEN args.n ELSE IF op \in DenseVectorOps THEN args.m ELSE 1

DenseCols == IF op \in DenseRowVectorOps \/ op \in DenseMatrixOps THEN args.m ELSE 1

\* The accumulator the last call was handed.
LogProb0 == IF args.lp THEN LogProb ELSE NoAccumulator

\* What the scalar-level accessor of the last call returns when it is called on the
\* reader of that call with k scalars consumed since.
ScalarLevelRead0(k) ==
  { x.ret : x \in scalar_level([This0 EXCEPT !.pos_ = pos0 + k], ScalarLevelOf, args, LogProb0) }

\* C21: a dense batch accessor (vector_, row_vector_ and matrix_ forms of lb, ub, lub
\* and offset_multiplier; plain, constrain and accumulator forms) that returns has
\* advanced pos by exactly m, resp. n * m, and returns a container of the requested
\* shape whose coefficient (i, j) is what the scalar-level accessor returns for the
\* read number j * rows + i counted from the cursor: columns outermost, rows inside
\* (for a vector the i-th read, for a row vector the j-th).
C21_DenseBatchIteratesScalarReads ==
  (op \in DenseOps /\ err = NoError) =>
     /\ pos = pos0 + DenseRows * DenseCols
     /\ int_pos = int_pos0
     /\ ret[1].rows = DenseRows
     /\ ret[1].cols = DenseCols
     /\ \A i \in 0..(DenseRows - 1), j \in 0..(DenseCols - 1) :
          ScalarLevelRead0(j * DenseRows + i) = {<<ret[1].coeff[<<i, j>>]>>}

\* C21 witness: matrix_lb_constrain(2, 2, 3) over the scalars 1..6 has consumed all
\* six; the coefficient in row 0, column 1 is the transform of the third scalar and
\* the coefficient in row 1, column 0 that of the second.
C21_Witness ==
  /\ op = "matrix_lb_constrain"
  /\ args.n = 2
  /\ args.m = 3
  /\ args.lb = 2
  /\ err = NoError
  /\ pos0 = 0
  /\ pos = 6
  /\ ret[1].coeff[<<0, 1>>] = Transform("lb_constrain", 3, <<2>>)
  /\ ret[1].coeff[<<1, 0>>] = Transform("lb_constrain", 2, <<2>>)

ScalarConstrainOps ==
  {"scalar_pos_constrain", "scalar_lb_constrain", "scalar_ub_constrain", "scalar_lub_constrain",
   "scalar_offset_multiplier_constrain", "prob_constrain", "corr_constrain"}

SparseConstrainOps ==
  {"sparse_matrix_lb_constrain", "sparse_matrix_ub_constrain", "sparse_matrix_lub_constrain",
   "sparse_matrix_offset_multiplier_constrain"}

LbConstrainOps ==
  {"scalar_lb_constrain", "vector_lb_constrain", "row_vector_lb_constrain",
   "matrix_lb_constrain", "sparse_matrix_lb_constrain"}

UbConstrainOps ==
  {"scalar_ub_constrain", "vector_ub_constrain", "row_vector_ub_constrain",
   "matrix_ub_constrain", "sparse_matrix_ub_constrain"}

LubConstrainOps ==
  {"scalar_lub_constrain", "vector_lub_constrain", "row_vector_lub_constrain",
   "matrix_lub_constrain", "sparse_matrix_lub_constrain"}

OffsetMultiplierConstrainOps ==
  {"scalar_offset_multiplier_constrain", "vector_offset_multiplier_constrain",
   "row_vector_offset_multiplier_constrain", "matrix_offset_multiplier_constrain",
   "sparse_matrix_offset_multiplier_constrain"}

\* The constrain accessors that transform scalar by scalar.
ElementwiseConstrainOps ==
  {"scalar_pos_constrain", "prob_constrain", "corr_constrain"} \cup LbConstrainOps
    \cup UbConstrainOps \cup LubConstrainOps \cup OffsetMultiplierConstrainOps

\* The transform of the last call, by the accessor's name, and the bounds it is given.
ElementTransformName ==
  CASE op = "scalar_pos_constrain" -> "positive_constrain"
    [] op = "prob_constrain" -> "prob_constrain"
    [] op = "corr_constrain" -> "corr_constrain"
    [] op \in LbConstrainOps -> "lb_constrain"
    [] op \in UbConstrainOps -> "ub_constrain"
    [] op \in LubConstrainOps -> "lub_constrain"
    [] op \in OffsetMultiplierConstrainOps -> "offset_multiplier_constrain"

ElementTransformDims ==
  CASE op \in LbConstrainOps -> <<args.lb>>
    [] op \in UbConstrainOps -> <<args.ub>>
    [] op \in LubConstrainOps -> <<args.lb, args.ub>>
    [] op \in OffsetMultiplierConstrainOps -> <<args.offset, args.multiplier>>
    [] OTHER -> <<>>

\* One Jacobian term per scalar the last call consumed, in the order consumed.
ElementJacobians ==
  [k \in 1..(pos - pos0) |->
     LogJacobian(ElementTransformName, data_r[pos0 + k], ElementTransformDims)]

\* C22: a constrain accessor called with an accumulator calls the transform that takes
\* the accumulator, and the accumulator is afterwards what it was before plus one
\* Jacobian term per element read (scalar by scalar for the scalar, dense and sparse
\* forms of pos, lb, ub, lub, offset_multiplier, prob and corr; one term for the whole
\* value for the vector and matrix families), nothing else added, nothing reset.
C22_AccumulatorOnlyAddedTo ==
  (args.lp /\ op \in ElementwiseConstrainOps \cup ConstrainOps) =>
     /\ err # NoMatchingFunction
     /\ log_prob.given
     /\ op \in ElementwiseConstrainOps => log_prob.added = ElementJacobians
     /\ op \in ConstrainOps =>
          log_prob.added = IF err = NoError
                           THEN <<LogJacobian(ret[1].transform, ret[1].x, ret[1].dims)>>
                           ELSE <<>>

\* C29: sparse_matrix_offset_multiplier_constrain without an accumulator, returning a
\* matrix with rows and columns, has stored for the i-th listed nonzero a triplet at
\* (vec_r[i], vec_c[i]) whose value is offset + multiplier * x, x the i-th scalar
\* consumed: the value scalar_offset_multiplier_constrain returns for it.
C29_SparseOffsetMultiplierTransforms ==
  (/\ op = "sparse_matrix_offset_multiplier_constrain"
   /\ ~args.lp
   /\ err = NoError
   /\ args.n > 0
   /\ args.m > 0) =>
     \A i \in 1..Len(args.vec_r) :
       \E t \in 1..Len(ret[1].triplets) :
         /\ ret[1].triplets[t][1] = args.vec_r[i]
         /\ ret[1].triplets[t][2] = args.vec_c[i]
         /\ ret[1].triplets[t][3] = args.offset + args.multiplier * data_r[pos0 + i]
         /\ <<ret[1].triplets[t][3]>> \in
              { x.ret : x \in scalar_offset_multiplier_constrain(
                                [This0 EXCEPT !.pos_ = pos0 + i - 1], args.offset,
                                args.multiplier) }

\* Whether the last step was a call of a member function.
Called == op \notin {"reader", "caller"}

\* C23: a second reader constructed over identical copies of the two sequences and
\* driven by the same calls in the same program (the same build: with the library's
\* assertions or without) is, before each call, in the state the first reader was in;
\* the same call on it returns the same value or throws the same exception and leaves
\* the same pos and int_pos: every call has one outcome.
C23_SameCallsSameResults ==
  Called =>
    \A o \in Outcomes(This0, op, args) :
      ((o.err = Aborted) <=> (err = Aborted)) =>
        /\ o.err = err
        /\ o.ret = ret
        /\ o.pos_ = pos
        /\ o.int_pos_ = int_pos

\* The calls that read no scalar.
IntegerOps == {"integer", "integer_lb_constrain", "integer_ub_constrain", "integer_lub_constrain"}
                \cup IntegerBoundOps

\* The scalars the last call delivered as they were read, in the order delivered.
Delivered0 ==
  CASE op = "scalar" -> ret
    [] op = "std_vector" -> ret[1]
    [] op \in {"vector", "row_vector"} -> Elements(ret[1])
    [] op = "matrix" -> FlattenColumns(ret[1])

\* C28: a call that reads scalars and returns has read the scalars of data_r from the
\* cursor it found up to the cursor it leaves, and no others: the cursor has not moved
\* backward, it is still within data_r, and scalar(), std_vector, vector, row_vector
\* and matrix return exactly those scalars in order.  The next call starts where this
\* one ended, so that the scalars delivered by a run of returning calls are the
\* scalars of data_r from the first on, each once.
C28_ReadsExactlyFromCursorToCursor ==
  (Called /\ op \notin IntegerOps \cup {"available", "available_i"} /\ err = NoError) =>
     /\ pos0 <= pos
     /\ pos <= Len(data_r)
     /\ op \in {"scalar"} \cup BulkOps => Delivered0 = SubSeq(data_r, pos0 + 1, pos)

(***************************************************************************)
(* Two reader instances over the same two sequences.  pos_ and int_pos_    *)
(* are non-static data members with default member initialisers, so each   *)
(* instance has cursors of its own; data_r_ and data_i_ are references, so *)
(* both instances read the one storage.  The first instance's cursors are  *)
(* pos and int_pos, the second's are the record second.  A call is made on *)
(* either instance at any time, by one caller, so the calls interleave in  *)
(* every order and each runs to its end before the next begins.            *)
(* integers_read, the record of one reader's integer() calls, is not kept. *)
(***************************************************************************)
Instances == {"first", "second"}

Cursors(x) == IF x = "first" THEN [pos_ |-> pos, int_pos_ |-> int_pos] ELSE second

Instance(x) ==
  [data_r_ |-> data_r, data_i_ |-> data_i, pos_ |-> Cursors(x).pos_,
   int_pos_ |-> Cursors(x).int_pos_]

\* The cursors of instance y after a call on instance x that ended as o: as if the
\* cursors were static members, one pair for every instance.
members_static(x, y, cursors, o) == [pos_ |-> o.pos_, int_pos_ |-> o.int_pos_]

\* The cursors of instance y after a call on instance x that ended as o: the call
\* wrote this->pos_ and this->int_pos_, the members of x alone.
members(x, y, cursors, o) ==
  IF y = x THEN [pos_ |-> o.pos_, int_pos_ |-> o.int_pos_] ELSE cursors

\* The calls made on the two instances: the checked reads of one element, plain,
\* bounded and transformed, and bulk reads of two scalars.
TwoReaderCalls ==
  {<<"integer", NoArgs>>, <<"scalar", NoArgs>>,
   <<"std_vector", [NoArgs EXCEPT !.m = 2]>>,
   <<"vector", [NoArgs EXCEPT !.m = 2]>>,
   <<"scalar_lb", [NoArgs EXCEPT !.lb = 2]>>,
   <<"scalar_ub_constrain", [NoArgs EXCEPT !.ub = 2, !.lp = TRUE]>>,
   <<"integer_ub", [NoArgs EXCEPT !.ub = 0]>>}

CallOn(x, name, a) ==
  /\ err \notin Fatal
  /\ Cursors(x).pos_ + a.m <= Len(data_r) + MaxOverrun
  /\ \E o \in Outcomes(Instance(x), name, a) :
       /\ pos' = members(x, "first", Cursors("first"), o).pos_
       /\ int_pos' = members(x, "first", Cursors("first"), o).int_pos_
       /\ second' = members(x, "second", Cursors("second"), o)
       /\ ret' = o.ret
       /\ err' = o.err
       /\ log_prob' = o.lp_
       /\ data_r' = o.data_r_
       /\ data_i' = o.data_i_
  /\ instance' = x
  /\ op' = name
  /\ args' = a
  /\ pos0' = Cursors(x).pos_
  /\ int_pos0' = Cursors(x).int_pos_
  /\ UNCHANGED <<integers_read, threads>>

CallOnFirst == \E c \in TwoReaderCalls : CallOn("first", c[1], c[2])

CallOnSecond == \E c \in TwoReaderCalls : CallOn("second", c[1], c[2])

TwoReadersNext == CallOnFirst \/ CallOnSecond

TwoReaders == Init /\ [][TwoReadersNext]_vars

\* How the call of a step ended, and whether that is one of the ways the same call
\* ends on a lone reader that stands at the given cursors over the same storage.
EndedCursors ==
  IF instance' = "first" THEN [pos_ |-> pos', int_pos_ |-> int_pos'] ELSE second'

Ended ==
  [ret |-> ret', err |-> err', pos_ |-> EndedCursors.pos_,
   int_pos_ |-> EndedCursors.int_pos_, lp_ |-> log_prob', data_r_ |-> data_r',
   data_i_ |-> data_i']

EndsAsAlone(cursors) ==
  Ended \in Outcomes([data_r_ |-> data_r, data_i_ |-> data_i, pos_ |-> cursors.pos_,
                      int_pos_ |-> cursors.int_pos_], op', args')

\* C27: with two reader instances over the same storage and their calls interleaved
\* in every order, a call on one instance leaves the other instance's pos and
\* int_pos as they were, and it ends (result, error and own cursors) as the same
\* call ends on a lone reader standing where this instance's own previous calls
\* left it.
C27_InstancesDoNotInterfere ==
  [][/\ instance' = "first" => second' = second /\ EndsAsAlone(Cursors("first"))
     /\ instance' = "second" =>
          pos' = pos /\ int_pos' = int_pos /\ EndsAsAlone(Cursors("second"))]_vars

\* The second instance returns the second scalar when the first instance has
\* already read four.
C27_Witness ==
  /\ instance = "second" /\ op = "scalar" /\ err = NoError
  /\ pos0 = 1 /\ second.pos_ = 2 /\ ret = <<data_r[2]>>
  /\ pos = 4

(***************************************************************************)
(* One reader instance called from two threads.  Neither scalar() nor      *)
(* integer() takes a lock or uses an atomic, so the steps of a call in one *)
(* thread interleave with the steps of a call in the other:                *)
(*   if (pos_ >= data_r_.size()) throw ...;     the check                  *)
(*   return data_r_[pos_++];                    the load of the cursor,    *)
(*                                              the store of cursor + 1,   *)
(*                                              then the subscript with    *)
(*                                              the value loaded           *)
(* (the side effect of pos_++ is sequenced before the call of operator[]). *)
(* Each thread makes one call on the reader as constructed.  threads[t]    *)
(* holds where thread t stands, the function it called, the cursor value   *)
(* it loaded and the element it was returned.                              *)
(***************************************************************************)
ThreadFunctions == {"scalar", "integer"}

\* The sequence and the cursor a function reads.
sequence_of(fn) == IF fn = "scalar" THEN data_r ELSE data_i

cursor_of(fn) == IF fn = "scalar" THEN pos ELSE int_pos

\* The value stored by cursor++ after it loaded index: as if the increment were one
\* atomic read-modify-write of the cursor.
post_increment_atomic(cursor, index) == SizeT(cursor + 1)

\* The value stored by cursor++ after it loaded index.
post_increment(cursor, index) == SizeT(index + 1)

\* What operator[] finds at an index (from 0): the element, or anything when the
\* index is out of range.
subscript(data, index) == IF index < Size(data) THEN {data[index + 1]} ELSE JunkVals

At(t, pc) == err \notin Fatal /\ threads[t].pc = pc

Unshared == <<data_r, data_i, op, args, pos0, int_pos0, ret, integers_read, log_prob, second, instance>>

ThreadCalls ==
  \E t \in Threads, fn \in ThreadFunctions :
    /\ At(t, "caller")
    /\ threads' = [threads EXCEPT ![t].pc = "check", ![t].fn = fn]
    /\ UNCHANGED <<pos, int_pos, err>>
    /\ UNCHANGED Unshared

ThreadChecks ==
  \E t \in Threads :
    /\ At(t, "check")
    /\ threads' = [threads EXCEPT ![t].pc =
                     IF cursor_of(threads[t].fn) >= Size(sequence_of(threads[t].fn))
                     THEN "thrown" ELSE "load"]
    /\ UNCHANGED <<pos, int_pos, err>>
    /\ UNCHANGED Unshared

ThreadLoadsCursor ==
  \E t \in Threads :
    /\ At(t, "load")
    /\ threads' = [threads EXCEPT ![t].pc = "store", ![t].index = cursor_of(threads[t].fn)]
    /\ UNCHANGED <<pos, int_pos, err>>
    /\ UNCHANGED Unshared

ThreadStoresCursor ==
  \E t \in Threads :
    /\ At(t, "store")
    /\ threads' = [threads EXCEPT ![t].pc = "subscript"]
    /\ IF threads[t].fn = "scalar"
       THEN pos' = post_increment(pos, threads[t].index) /\ int_pos' = int_pos
       ELSE int_pos' = post_increment(int_pos, threads[t].index) /\ pos' = pos
    /\ UNCHANGED err
    /\ UNCHANGED Unshared

ThreadSubscripts ==
  \E t \in Threads :
    /\ At(t, "subscript")
    /\ \/ /\ \E v \in subscript(sequence_of(threads[t].fn), threads[t].index) :
               threads' = [threads EXCEPT ![t].pc = "returned", ![t].got = <<v>>]
          /\ UNCHANGED err
       \/ /\ threads[t].index >= Size(sequence_of(threads[t].fn))
          /\ threads' = [threads EXCEPT ![t].pc = "crashed"]
          /\ err' = UBCrash
    /\ UNCHANGED <<pos, int_pos>>
    /\ UNCHANGED Unshared

TwoThreadsNext ==
  ThreadCalls \/ ThreadChecks \/ ThreadLoadsCursor \/ ThreadStoresCursor \/ ThreadSubscripts

TwoThreads == Init /\ [][TwoThreadsNext]_vars

\* Both threads called the same function and both calls returned.
BothReturned ==
  /\ threads[1].fn = threads[2].fn
  /\ threads[1].pc = "returned" /\ threads[2].pc = "returned"

RacedOn == threads[1].fn

\* C26: two threads call scalar() (or both integer()) on one reader, with the check,
\* the load of the cursor, its store and the element read as separate steps.  When
\* both calls have returned, either both loaded the same cursor value, and then both
\* received the same element and the cursor has advanced by one only; or they loaded
\* the first two indexes and the cursor has advanced by two, and the element read at
\* the second index was read past the end when the sequence holds one element.
C26_RaceOutcomes ==
  BothReturned =>
    \/ /\ threads[1].index = threads[2].index
       /\ threads[1].got = threads[2].got
       /\ cursor_of(RacedOn) = 1
    \/ /\ {threads[1].index, threads[2].index} = {0, 1}
       /\ cursor_of(RacedOn) = 2
       /\ \A t \in Threads :
            threads[t].index < Size(sequence_of(RacedOn)) =>
              threads[t].got = <<sequence_of(RacedOn)[threads[t].index + 1]>>

\* Both threads were returned the first of six scalars, and the cursor stands at one.
C26_Witness ==
  /\ BothReturned /\ RacedOn = "scalar"
  /\ data_r = ScenarioB
  /\ threads[1].got = <<1>> /\ threads[2].got = <<1>>
  /\ pos = 1

\* A thread was returned what lies past the end of a sequence of one scalar.
C26_ReadPastTheEnd ==
  /\ BothReturned /\ RacedOn = "scalar"
  /\ Size(data_r) = 1
  /\ \E t \in Threads : threads[t].index = 1

\* The scalar at the cursor when the last call began, when there is one.
ScalarAvailable0 == pos0 < Len(data_r)

NextScalar0 == data_r[pos0 + 1]

\* C31: when a scalar is available, prob() returns it unchanged exactly when it lies
\* in [0, 1] and corr() exactly when it lies in [-1, 1], the ends of the interval
\* included; for every other value the call fails with the validation error of the
\* accessor and returns nothing.
C31_ProbAndCorrClosedIntervals ==
  (op \in {"prob", "corr"} /\ ScalarAvailable0) =>
    LET low == IF op = "prob" THEN 0 ELSE -1 IN
      IF low <= NextScalar0 /\ NextScalar0 <= 1
      THEN err = NoError /\ ret = <<NextScalar0>>
      ELSE err = (IF op = "prob" THEN "stan::io::prob" ELSE "stan::io::corr")
           /\ err \in ValidationError /\ ret = <<>>

\* prob() returned the scalar 0, the lower end of its interval.
C31_Witness == op = "prob" /\ ScalarAvailable0 /\ NextScalar0 = 0 /\ ret = <<0>> /\ err = NoError

\* corr() returned the scalar -1, the lower end of its interval.
C31_CorrAtLowerEnd ==
  op = "corr" /\ ScalarAvailable0 /\ NextScalar0 = -1 /\ ret = <<-1>> /\ err = NoError

\* The constrain forms that apply no transform, and the plain accessor of each.
IdentityConstrainOps ==
  {"integer_constrain", "scalar_constrain", "vector_constrain", "row_vector_constrain",
   "matrix_constrain", "sparse_matrix_constrain", "integer_lb_constrain",
   "integer_ub_constrain", "integer_lub_constrain"}

PlainOf ==
  CASE op = "integer_constrain" -> "integer"
    [] op = "scalar_constrain" -> "scalar"
    [] op = "vector_constrain" -> "vector"
    [] op = "row_vector_constrain" -> "row_vector"
    [] op = "matrix_constrain" -> "matrix"
    [] op = "sparse_matrix_constrain" -> "sparse_matrix"
    [] op = "integer_lb_constrain" -> "integer_lb"
    [] op = "integer_ub_constrain" -> "integer_ub"
    [] op = "integer_lub_constrain" -> "integer_lub"

\* What a caller sees of an outcome besides the accumulator.
Seen(o) == [ret |-> o.ret, err |-> o.err, pos_ |-> o.pos_, int_pos_ |-> o.int_pos_]

\* C32: a constrain form that applies no transform (integer_, scalar_, vector_,
\* row_vector_, matrix_, sparse_matrix_ and integer_lb/ub/lub_constrain), called with
\* or without an accumulator, ends as the plain accessor ends when called on the same
\* reader with the same arguments (same value, same error, same cursors: the two have
\* the same outcomes), and the accumulator is afterwards what it was before.
C32_IdentityConstrainIsPlain ==
  op \in IdentityConstrainOps =>
    /\ Seen([ret |-> ret, err |-> err, pos_ |-> pos, int_pos_ |-> int_pos]) \in
         { Seen(o) : o \in Outcomes(This0, PlainOf, [args EXCEPT !.lp = FALSE]) }
    /\ { Seen(o) : o \in Outcomes(This0, op, args) } =
         { Seen(o) : o \in Outcomes(This0, PlainOf, [args EXCEPT !.lp = FALSE]) }
    /\ log_prob = LogProb0

\* matrix_constrain(2, 3) with an accumulator returned the six scalars as two rows of
\* three columns and left the accumulator as it was.
C32_Witness ==
  /\ op = "matrix_constrain" /\ args.lp /\ args.n = 2 /\ args.m = 3
  /\ data_r = ScenarioB /\ pos0 = 0 /\ pos = 6 /\ err = NoError
  /\ ret[1].rows = 2 /\ ret[1].cols = 3 /\ ret[1].coeff[<<0, 1>>] = 3
  /\ log_prob = LogProb

\* The accessors that read integers, in every form; every other accessor but the two
\* counts reads scalars.
IntegerSideOps ==
  {"integer", "integer_constrain", "integer_lb", "integer_lb_constrain", "integer_ub",
   "integer_ub_constrain", "integer_lub", "integer_lub_constrain"}

ScalarSideOps == {op} \ (IntegerSideOps \cup {"reader", "caller", "available", "available_i"})

\* C33: a call that reads scalars (scalar, std_vector, vector, row_vector, matrix,
\* sparse_matrix and every constrained scalar, vector and matrix accessor) leaves
\* int_pos where it was, and a call that reads integers (integer, integer_lb,
\* integer_ub, integer_lub and their constrain forms) leaves pos where it was, whether
\* the call returns or throws.
C33_CursorsIndependent ==
  /\ op \in ScalarSideOps => int_pos = int_pos0
  /\ op \in IntegerSideOps => pos = pos0

\* After one integer was read, scalar_lb consumed a scalar below its bound and threw,
\* with int_pos still one.
C33_Witness ==
  /\ op = "scalar_lb" /\ err = "stan::io::scalar_lb"
  /\ pos = pos0 + 1
  /\ int_pos0 = 1 /\ int_pos = 1

\* The plain accessors of one constrained scalar.
PlainScalarOps == {"scalar_pos", "scalar_lb", "scalar_ub", "scalar_lub", "prob", "corr"}

\* C34: when scalar_pos, scalar_lb, scalar_ub, scalar_lub, prob or corr fails with a
\* validation error, a scalar was available, the call has consumed it (pos has
\* advanced by exactly one and stays there), it returns nothing and int_pos is where
\* it was; when a scalar is available these accessors end in no other error.
C34_FailedValidationHasConsumed ==
  op \in PlainScalarOps =>
    /\ err \in ValidationError =>
         ScalarAvailable0 /\ pos = pos0 + 1 /\ int_pos = int_pos0 /\ ret = <<>>
    /\ ScalarAvailable0 => err \in ValidationError \cup {NoError} /\ pos = pos0 + 1

\* prob() over the single scalar 2 threw and left pos at one.
C34_Witness ==
  /\ op = "prob" /\ err = "stan::io::prob"
  /\ data_r = <<2>> /\ pos0 = 0 /\ pos = 1

\* The plain batch accessors that check every element against bounds.
PlainLbBatchOps == {"vector_lb", "row_vector_lb", "matrix_lb", "sparse_matrix_lb"}
PlainUbBatchOps == {"vector_ub", "row_vector_ub", "matrix_ub", "sparse_matrix_ub"}
PlainLubBatchOps == {"vector_lub", "row_vector_lub", "matrix_lub", "sparse_matrix_lub"}
PlainBatchOps == PlainLbBatchOps \cup PlainUbBatchOps \cup PlainLubBatchOps

\* The elements the last batch call reads when none fails.
BatchSize ==
  IF op \in DenseOps THEN DenseRows * DenseCols
  ELSE IF args.n = 0 \/ args.m = 0 THEN 0 ELSE Len(args.vec_r)

\* Whether the t-th scalar from the cursor of the last call violates its bounds.
Violates0(t) ==
  LET x == data_r[pos0 + t] IN
    CASE op \in PlainLbBatchOps -> ~(x >= args.lb)
      [] op \in PlainUbBatchOps -> ~(x <= args.ub)
      [] op \in PlainLubBatchOps -> ~(args.lb <= x /\ x <= args.ub)

Violations0 == {t \in 1..BatchSize : Violates0(t)}

\* C35: a plain batch accessor with bounds (vector_, row_vector_, matrix_ and
\* sparse_matrix_ forms of lb, ub, lub) called with enough scalars available stops at
\* the first element that violates the bounds: if that is the t-th element it reads,
\* the call throws the validation error with pos advanced by exactly t and returns
\* nothing; with no violating element it returns with pos advanced by the number of
\* elements.
C35_BatchStopsAtFirstViolation ==
  (op \in PlainBatchOps /\ pos0 + BatchSize <= Len(data_r)) =>
    IF Violations0 # {}
    THEN /\ err \in ValidationError
         /\ ret = <<>>
         /\ \E t \in Violations0 :
              /\ \A u \in Violations0 : t <= u
              /\ pos = pos0 + t
    ELSE err = NoError /\ pos = pos0 + BatchSize

\* matrix_ub(2, 2, 2) at the scalars 2, 3, 4, 5 threw at the second element and left
\* the third and fourth unread.
C35_Witness ==
  /\ op = "matrix_ub" /\ args.n = 2 /\ args.m = 2 /\ args.ub = 2
  /\ data_r = ScenarioB /\ pos0 = 1 /\ pos = 3
  /\ err = "stan::io::scalar_ub"

\* The batch accessors that read scalar by scalar, in every form.
SparseBatchOps ==
  {"sparse_matrix_lb", "sparse_matrix_lb_constrain", "sparse_matrix_ub",
   "sparse_matrix_ub_constrain", "sparse_matrix_lub", "sparse_matrix_lub_constrain",
   "sparse_matrix_offset_multiplier", "sparse_matrix_offset_multiplier_constrain"}

ElementwiseBatchOps == DenseOps \cup SparseBatchOps

\* Scalars left to read when the last call began, and whether the last call was a
\* batch call that reads more elements than that.
Remaining0 == IF pos0 < Len(data_r) THEN Len(data_r) - pos0 ELSE 0

NeedsMoreThanRemain == op \in ElementwiseBatchOps /\ BatchSize > Remaining0

EarlyViolations0 == {t \in 1..Remaining0 : op \in PlainBatchOps /\ Violates0(t)}

C37_ScalarCursorWithinSequence ==
  /\ pos <= Len(data_r)
  /\ (op = "available" /\ err = NoError) => ret[1] \in 0..Len(data_r)

\* C38: in every reachable state int_pos <= Len(data_i): a call moves the integer
\* cursor by one step at most, only an accessor that reads integers moves it, and
\* only from an index at which data_i holds an integer; available_i() returns a count
\* between 0 and Len(data_i).
C38_IntegerCursorWithinSequence ==
  /\ int_pos <= Len(data_i)
  /\ int_pos \in {int_pos0, int_pos0 + 1}
  /\ int_pos = int_pos0 + 1 => op \in IntegerSideOps /\ int_pos0 < Len(data_i)
  /\ (op = "available_i" /\ err = NoError) => ret[1] \in 0..Len(data_i)

\* Both integers of [3, 5] were read and available_i() returned 0.
C38_Witness ==
  /\ op = "available_i" /\ data_i = ScenarioA
  /\ int_pos = 2 /\ integers_read = <<3, 5>>
  /\ ret = <<0>>

\* The one error integer_lub ends in, by precedence, for the integer i it read.
LubPrecedence(i) ==
  IF args.lb > args.ub THEN BoundsInconsistent
  ELSE IF i < args.lb THEN BelowLowerBound
  ELSE IF i > args.ub THEN AboveUpperBound
  ELSE NoError

\* C39: integer_lub(lb, ub) (and its constrain forms) throws "no more integers to
\* read." when no integer remains, whatever the bounds, with int_pos unchanged;
\* otherwise it consumes the integer i and ends in exactly one of, in this order: the
\* inconsistent-bounds error when lb > ub, the lower-bound error when i < lb, the
\* upper-bound error when i > ub, the return of i.
C39_IntegerLubPrecedence ==
  op \in IntegerLubOps =>
    IF int_pos0 >= Len(data_i)
    THEN err = NoMoreIntegers /\ int_pos = int_pos0 /\ ret = <<>>
    ELSE /\ int_pos = int_pos0 + 1
         /\ err = LubPrecedence(NextInteger0)
         /\ ret = IF err = NoError THEN <<NextInteger0>> ELSE <<>>

\* integer_lub(5, 2) with no integer left threw "no more integers to read.", not the
\* inconsistent-bounds error.
C39_Witness ==
  /\ op = "integer_lub" /\ args.lb = 5 /\ args.ub = 2
  /\ data_i = ScenarioA /\ int_pos0 = 2 /\ int_pos = 2
  /\ err = NoMoreIntegers

\* integer_lub(5, 2) read 3, below the lower bound, and threw the inconsistent-bounds
\* error.
C39_BoundsBeforeValue ==
  /\ op = "integer_lub" /\ args.lb = 5 /\ args.ub = 2
  /\ int_pos0 < Len(data_i) /\ NextInteger0 = 3
  /\ err = BoundsInconsistent

\* C40: the number of scalars cholesky_factor_cov_constrain(n, m) requests,
\* (m * (m + 1)) / 2 + (n - m) * m computed in size_t, never exceeds n * m, the number
\* of entries of the matrix it returns, for any n and m, n < m included.
C40_RequestWithinMatrixSize ==
  op = "cholesky_factor_cov_constrain" =>
    cholesky_factor_cov_size(args.n, args.m) <= args.n * args.m

====
